---- MODULE Spec2Model ----
(***************************************************************************)
(* CommFlow: the data synchronization, backup and mapping layer.           *)
(*                                                                         *)
(*   SpecMapper  domain/mappers.ts and domain/schemas.ts (pure functions)  *)
(*   SpecBackup  utils/backupManager.ts over localStorage                  *)
(*   SpecSync    hooks/useStats.ts (useDataSync) and the provider effects  *)
(*                                                                         *)
(* JavaScript numbers are modelled in fixed point: the integer n stands    *)
(* for the number n / Scale, so that fractional prices (49.99) and         *)
(* non-integer cents are representable.  ISO-8601 timestamps are modelled  *)
(* as the pair <<date, time>>; the strings compare lexicographically.      *)
(***************************************************************************)
EXTENDS Integers, Sequences, FiniteSets, TLC

VARIABLES
    mIn,        \* mapper: the storage commission handed to the mapper
    mDomain,    \* mapper: result of storageCommissionToDomain
    mBack,      \* mapper: result of domainCommissionToStorage
    mPc,        \* mapper: "input" | "mapped" | "stored"
    now,        \* the wall clock read by new Date()
    localStorage, \* window.localStorage: storage key -> stored string
    bk,         \* the saveWithBackup call in progress (or just ended)
    hist,       \* the last two completed BackupManager calls
    lastRestore, \* what the last restoreFromBackup call did
    isCurrentlySyncing,  \* useStats.ts: the module-level single-flight flag
    globalSyncFunction,  \* useStats.ts: "null" or the registered "syncNow"
    app,          \* is the component tree mounted, and is polling enabled
    clientIsLoading, \* ClientProvider's isLoading state
    effectDue,    \* ClientProvider re-rendered: CommissionProvider's load effect is due
    bodies,       \* the syncNow bodies between their try and their finally
    clientLoads,  \* client loads in flight that were started by a mount effect
    commLoads,    \* commission loads in flight that were started by a provider effect
    flight,       \* calls and fetches since the current sync flight began
    calls,        \* number of syncNow / triggerDataSync calls made by callers
    mounts,       \* number of times the tree was mounted
    store,        \* the record store behind DataStorage: clients, pending, completed
    pCall,        \* the last PersistenceService / validateArray call and its outcome
    pendingCommissions, \* CommissionProvider state: the pending list
    historyCommissions, \* CommissionProvider state: the history list
    clients,      \* ClientProvider state: the client list
    isLoading,    \* the isLoading state of ClientProvider and of CommissionProvider
    tasks,        \* the context operations and loads that are awaiting the store
    ctxLog        \* what the context operations have done so far

syncVars == <<isCurrentlySyncing, globalSyncFunction, app, clientIsLoading, effectDue,
              bodies, clientLoads, commLoads, flight, calls, mounts>>
persistVars == <<store, pCall>>
ctxVars == <<pendingCommissions, historyCommissions, clients, isLoading, tasks, ctxLog>>
restVars == <<persistVars, ctxVars>>
vars == <<mIn, mDomain, mBack, mPc, now, localStorage, bk, hist, lastRestore, syncVars, restVars>>
mapperVars == <<mIn, mDomain, mBack, mPc>>
backupVars == <<localStorage, bk, hist, lastRestore>>

(***************************************************************************)
(* Bounds                                                                  *)
(***************************************************************************)
MaxTime == 4          \* the clock runs over 0 .. MaxTime
MaxCalls == 2         \* syncNow / triggerDataSync calls besides the one at mount
MaxMounts == 2        \* mounts of the component tree
MaxRaw == 3           \* raw commission records in a bucket of the store at start
MaxRawClients == 2    \* raw client records in the store at start
MaxOps == 2           \* context operations and reloads started after the mount

(***************************************************************************)
(* JavaScript values                                                       *)
(***************************************************************************)
Scale == 1000
Num(i) == i * Scale                       \* the integer i as a JS number
None == {}                                \* an absent (undefined) field
Some(x) == {x}
Val(o) == CHOOSE x \in o : TRUE
UNDEF == "undefined"                      \* undefined where a string is expected

\* Number.isInteger
IsInt(x) == x % Scale = 0

\* (mutant) truncation instead of rounding
MathRoundTrunc(x) == (x \div Scale) * Scale

\* Math.round: the integer nearest to x, ties towards +Infinity
MathRound(x) == ((x + (Scale \div 2)) \div Scale) * Scale

\* new Date().toISOString(): fixed-width, so that string order is time order
TicksPerDay == 2
toISOString(n) == <<n \div TicksPerDay, n % TicksPerDay>>
\* s.split('T')[0]
DatePart(iso) == iso[1]
\* date + 'T00:00:00.000Z'
Midnight(date) == <<date, 0>>

(***************************************************************************)
(* domain/schemas.ts                                                       *)
(***************************************************************************)
PaymentStatusEnum == {"not-paid", "half-paid", "fully-paid"}
WorkStatusEnum == {"pending", "in-progress", "completed"}
StoragePaymentStatusEnum == {"Not Paid", "Half Paid", "Fully Paid"}
DomainStatusEnum == {"Pending", "In Progress", "Completed"}

\* StorageCommissionSchema: price optional number, price_cents optional
\* integer, the two enums, and the refinement "price or price_cents required"
StorageCommissionSchema(d) ==
    /\ d.price_cents # None => IsInt(Val(d.price_cents))
    /\ d.payment_status \in StoragePaymentStatusEnum
    /\ d.status \in WorkStatusEnum
    /\ (d.price # None \/ d.price_cents # None)

\* DomainCommissionSchema: priceCents a non-negative integer, the two enums
DomainCommissionSchema(b) ==
    /\ IsInt(b.priceCents)
    /\ b.priceCents >= 0
    /\ b.paymentStatus \in PaymentStatusEnum
    /\ b.status \in DomainStatusEnum

(***************************************************************************)
(* domain/mappers.ts                                                       *)
(***************************************************************************)
\* (mutant) an unknown label silently defaulted
mapPaymentStatusStorageToDomainDefaulting(s) ==
    CASE s = "Half Paid" -> "half-paid"
      [] s = "Fully Paid" -> "fully-paid"
      [] OTHER -> "not-paid"

mapPaymentStatusStorageToDomain(s) ==
    CASE s = "Not Paid" -> "not-paid"
      [] s = "Half Paid" -> "half-paid"
      [] s = "Fully Paid" -> "fully-paid"
      [] OTHER -> UNDEF

mapPaymentStatusDomainToStorage(p) ==
    CASE p = "not-paid" -> "Not Paid"
      [] p = "half-paid" -> "Half Paid"
      [] p = "fully-paid" -> "Fully Paid"
      [] OTHER -> UNDEF

\* (c.price || 0)
PriceOrZero(c) == IF c.price = None THEN 0 ELSE Val(c.price)

\* price_cents !== undefined ? price_cents : Math.round((price || 0) * 100)
rawPriceCents(c) ==
    IF c.price_cents # None
    THEN Val(c.price_cents)
    ELSE MathRound(PriceOrZero(c) * 100)

\* the object handed to DomainCommissionSchema.parse
DomainBase(c) ==
    [ id            |-> c.id,
      client        |-> [id |-> c.client_id, name |-> c.client_name,
                         contactInfo |-> "", pfp |-> None],
      commType      |-> c.title,
      priceCents    |-> rawPriceCents(c),
      description   |-> c.description,
      refs          |-> [i \in DOMAIN c.images |->
                           [name |-> <<"Image", i>>, url |-> Some(c.images[i]),
                            type |-> "image"]],
      date          |-> DatePart(c.created_at),
      paymentStatus |-> mapPaymentStatusStorageToDomain(c.payment_status),
      status        |-> IF c.status = "completed" THEN "Completed"
                        ELSE IF c.status = "in-progress" THEN "In Progress"
                        ELSE "Pending",
      originalDate  |-> IF c.status = "completed"
                        THEN Some(DatePart(c.created_at)) ELSE None,
      completedDate |-> IF c.status = "completed"
                        THEN Some(DatePart(c.updated_at)) ELSE None ]

\* (mutant) a mapper that sets no completion dates
storageCommissionToDomainUndated(c) ==
    IF DomainCommissionSchema(DomainBase(c))
    THEN Some([DomainBase(c) EXCEPT !.originalDate = None, !.completedDate = None])
    ELSE None

\* returns the parsed commission, or None (undefined) when parse throws
storageCommissionToDomain(c) ==
    IF DomainCommissionSchema(DomainBase(c))
    THEN Some(DomainBase(c))
    ELSE None

\* r.url || r.name of the image references
ImageRefs(refs) ==
    LET img == SelectSeq(refs, LAMBDA r : r.type = "image")
    IN  [i \in DOMAIN img |->
            IF img[i].url # None THEN Val(img[i].url) ELSE img[i].name]

domainCommissionToStorage(c, t) ==
    [ id             |-> c.id,
      client_id      |-> c.client.id,
      client_name    |-> c.client.name,
      title          |-> c.commType,
      description    |-> c.description,
      price          |-> None,
      price_cents    |-> Some(c.priceCents),
      payment_status |-> mapPaymentStatusDomainToStorage(c.paymentStatus),
      status         |-> IF c.status = "Completed" THEN "completed"
                         ELSE IF c.status = "In Progress" THEN "in-progress"
                         ELSE "pending",
      created_at     |-> Midnight(c.date),
      updated_at     |-> toISOString(t),
      images         |-> ImageRefs(c.refs) ]

(***************************************************************************)
(* JavaScript values handed to the BackupManager, and strings              *)
(*                                                                         *)
(* A string is a sequence of tokens, each standing for a fixed piece of    *)
(* text: "a" a word character, " " a blank, "java" and "script:" the two   *)
(* halves of "javascript:", "on" and "=" the parts of an inline handler,   *)
(* and the four tags.                                                      *)
(***************************************************************************)
JStr(s) == [t |-> "string", s |-> s]
JBool(b) == [t |-> "boolean", b |-> b]
JArr(e) == [t |-> "array", e |-> e]
JObj(f) == [t |-> "object", f |-> f]
JNull == [t |-> "null"]
JUndef == [t |-> "undefined"]

WordTokens == {"a", "java", "on"}        \* tokens made of \w characters only

RECURSIVE IndexFrom(_, _, _)
\* the least index >= i of token tok in s, or 0
IndexFrom(s, tok, i) ==
    IF i > Len(s) THEN 0
    ELSE IF s[i] = tok THEN i
    ELSE IndexFrom(s, tok, i + 1)

RECURSIVE RemoveElements(_, _, _)
\* .replace(/<tag\b[^<]*(?:(?!<\/tag>)<[^<]*)*<\/tag>/gi, ''): every stretch
\* from an opening tag to the first closing tag after it
RemoveElements(s, open, close) ==
    LET i == IndexFrom(s, open, 1)
        j == IF i = 0 THEN 0 ELSE IndexFrom(s, close, i + 1)
    IN  IF i = 0 \/ j = 0 THEN s
        ELSE SubSeq(s, 1, i - 1) \o RemoveElements(SubSeq(s, j + 1, Len(s)), open, close)

RECURSIVE RemoveJavascript(_)
\* .replace(/javascript:/gi, '')
RemoveJavascript(s) ==
    IF Len(s) < 2 THEN s
    ELSE IF s[1] = "java" /\ s[2] = "script:"
         THEN RemoveJavascript(SubSeq(s, 3, Len(s)))
         ELSE <<s[1]>> \o RemoveJavascript(Tail(s))

RECURSIVE SkipWhile(_, _, _)
\* the first index >= i whose token is not in set (Len(s) + 1 if none)
SkipWhile(s, set, i) ==
    IF i <= Len(s) /\ s[i] \in set THEN SkipWhile(s, set, i + 1) ELSE i

\* the end of a match of /on\w+\s*=/ starting at token i, or 0.  \w+ may stop
\* only at a token boundary, and s[i] = "on" is then the "on" of the pattern.
HandlerEnd(s, i) ==
    IF i > Len(s) \/ s[i] # "on" THEN 0
    ELSE LET w == SkipWhile(s, WordTokens, i + 1)
             e == SkipWhile(s, {" "}, w)
         IN  IF w > i + 1 /\ e <= Len(s) /\ s[e] = "=" THEN e ELSE 0

RECURSIVE RemoveHandlers(_)
\* .replace(/on\w+\s*=/gi, '')
RemoveHandlers(s) ==
    IF s = <<>> THEN s
    ELSE IF HandlerEnd(s, 1) # 0
         THEN RemoveHandlers(SubSeq(s, HandlerEnd(s, 1) + 1, Len(s)))
         ELSE <<s[1]>> \o RemoveHandlers(Tail(s))

RECURSIVE Trim(_)
\* .trim()
Trim(s) ==
    IF s = <<>> THEN s
    ELSE IF s[1] = " " THEN Trim(Tail(s))
    ELSE IF s[Len(s)] = " " THEN Trim(SubSeq(s, 1, Len(s) - 1))
    ELSE s

\* (mutant) a sanitizer that only trims
sanitizeTextTrimOnly(text) == Trim(text)

\* SecurityValidator.sanitizeText ('' is returned for the empty string)
sanitizeText(text) ==
    Trim(RemoveHandlers(RemoveJavascript(
        RemoveElements(RemoveElements(text, "<script>", "</script>"),
                       "<iframe>", "</iframe>"))))

RECURSIVE sanitizeForStorage(_)
\* SecurityValidator.sanitizeForStorage
sanitizeForStorage(data) ==
    CASE data.t = "string" -> JStr(sanitizeText(data.s))
      [] data.t = "array"  -> JArr([i \in DOMAIN data.e |-> sanitizeForStorage(data.e[i])])
      [] data.t = "object" -> JObj([k \in DOMAIN data.f |-> sanitizeForStorage(data.f[k])])
      [] OTHER -> data

(***************************************************************************)
(* JSON and localStorage.  A stored string is modelled by what JSON.parse  *)
(* makes of it: a JSON text is its parse tree, anything else is raw.       *)
(***************************************************************************)
Null == [t |-> "absent"]                 \* getItem of a missing key
Raw(s) == [t |-> "raw", s |-> s]
JsonText(v) == [t |-> "json", v |-> v]
IsoText(n) == [t |-> "iso", ts |-> toISOString(n)]

RECURSIVE JsonTree(_)
\* what JSON.stringify keeps of a value: an undefined property is dropped,
\* an undefined array element becomes null
JsonTree(v) ==
    CASE v.t = "array"  -> JArr([i \in DOMAIN v.e |->
                                IF v.e[i] = JUndef THEN JNull ELSE JsonTree(v.e[i])])
      [] v.t = "object" -> JObj([k \in {x \in DOMAIN v.f : v.f[x] # JUndef} |->
                                JsonTree(v.f[k])])
      [] OTHER -> v

\* JSON.stringify(v) followed by the string coercion of setItem:
\* JSON.stringify(undefined) is undefined, stored as the text "undefined"
JSONstringify(v) == IF v = JUndef THEN Raw("undefined") ELSE JsonText(JsonTree(v))

\* JSON.parse succeeds exactly on JSON texts
Parseable(text) == text.t = "json"
JSONparse(text) == text.v

\* the truthiness of a getItem result: null and '' are falsy
Truthy(text) == text # Null /\ text # Raw("")

getItem(ls, key) == IF key \in DOMAIN ls THEN ls[key] ELSE Null
setItem(ls, key, text) == [k \in DOMAIN ls \cup {key} |-> IF k = key THEN text ELSE ls[k]]
removeItem(ls, key) == [k \in DOMAIN ls \ {key} |-> ls[k]]

(***************************************************************************)
(* utils/backupManager.ts                                                  *)
(***************************************************************************)
BACKUP_KEYS ==
    [ clients        |-> <<"commflow-clients">>,
      clientsBackup  |-> <<"commflow-clients-backup">>,
      pending        |-> <<"commflow-pending-commissions">>,
      pendingBackup  |-> <<"commflow-pending-commissions-backup">>,
      history        |-> <<"commflow-history-commissions">>,
      historyBackup  |-> <<"commflow-history-commissions-backup">>,
      settings       |-> <<"commflow-settings">>,
      settingsBackup |-> <<"commflow-settings-backup">>,
      lastBackup     |-> <<"commflow-last-backup-timestamp">> ]

\* `${key}Backup`
BackupKeyOf(key) ==
    CASE key = "clients"  -> "clientsBackup"
      [] key = "pending"  -> "pendingBackup"
      [] key = "history"  -> "historyBackup"
      [] key = "settings" -> "settingsBackup"
      [] OTHER -> "none"

\* this.BACKUP_KEYS[backupKey] is defined
HasBackupKey(key) == BackupKeyOf(key) \in DOMAIN BACKUP_KEYS

EmergencyPrefix == "commflow-emergency-backup-"
\* `commflow-emergency-backup-${timestamp}`
EmergencyKey(n) == <<EmergencyPrefix>> \o toISOString(n)

\* (mutant) a load that never looks at the backup
loadWithBackupFallbackPrimaryOnly(ls, key) ==
    IF Truthy(getItem(ls, BACKUP_KEYS[key])) /\ Parseable(getItem(ls, BACKUP_KEYS[key]))
    THEN JSONparse(getItem(ls, BACKUP_KEYS[key]))
    ELSE JNull

\* BackupManager.loadWithBackupFallback
loadWithBackupFallback(ls, key) ==
    LET mainData == getItem(ls, BACKUP_KEYS[key])
        backupData == IF HasBackupKey(key)
                      THEN getItem(ls, BACKUP_KEYS[BackupKeyOf(key)]) ELSE Null
    IN  IF Truthy(mainData) /\ Parseable(mainData) THEN JSONparse(mainData)
        ELSE IF HasBackupKey(key) /\ Truthy(backupData) /\ Parseable(backupData)
             THEN JSONparse(backupData)
             ELSE JNull

(***************************************************************************)
(* The parts of the state a specification does not use stay as constructed *)
(***************************************************************************)
IdleCall == [pc |-> "idle"]
NoRestore == [ran |-> FALSE]

BackupIdle ==
    /\ localStorage = [k \in {} |-> Null]
    /\ bk = IdleCall
    /\ hist = <<>>
    /\ lastRestore = NoRestore

MapperIdle ==
    /\ mIn = [id |-> "none"]
    /\ mDomain = None
    /\ mBack = None
    /\ mPc = "off"

EmptyStore == [clients |-> <<>>, pending |-> <<>>, completed |-> <<>>]
NoCall == [op |-> "none"]

\* an empty record store and no PersistenceService call made
PersistIdle ==
    /\ store = EmptyStore
    /\ pCall = NoCall

NoLog == [deleted |-> {}, transitions |-> {}, created |-> {}, marked |-> {},
          moved |-> {}, incomplete |-> {}, added |-> {}, paid |-> {}, repaid |-> {},
          failed |-> FALSE,
          ops |-> 0, made |-> 0]

\* providers not mounted: empty lists, nothing awaited
CtxIdle ==
    /\ pendingCommissions = <<>>
    /\ historyCommissions = <<>>
    /\ clients = <<>>
    /\ isLoading = [client |-> TRUE, commission |-> TRUE]
    /\ tasks = {}
    /\ ctxLog = NoLog

RestIdle == PersistIdle /\ CtxIdle

NoFlight == [calls |-> 0, clients |-> 0, pending |-> 0, completed |-> 0, pendingFailed |-> FALSE]

\* nothing mounted, nothing registered, nothing in flight
SyncIdle ==
    /\ isCurrentlySyncing = FALSE
    /\ globalSyncFunction = "null"
    /\ app = [mounted |-> FALSE, enabled |-> FALSE]
    /\ clientIsLoading = TRUE
    /\ effectDue = FALSE
    /\ bodies = <<>>
    /\ clientLoads = [live |-> 0, orphan |-> 0]
    /\ commLoads = [pending |-> 0, completed |-> 0, orphanPending |-> 0, orphanCompleted |-> 0]
    /\ flight = NoFlight
    /\ calls = 0
    /\ mounts = 0

(***************************************************************************)
(* SpecMapper: the mappers applied to bounded inputs                       *)
(***************************************************************************)
\* legacy fractional prices: 0, 0.125 (a tie: 12.5 cents), 1.004, 1.006,
\* 49.99, and a negative one
MapperPrices == {0, 125, 1004, 1006, 49990, -125}
\* 0, 4999, a negative and a non-integer number of cents
MapperCents == {Num(0), Num(4999), Num(-1), 49500}

MapperInputs ==
    [ id             : {"c1"},
      client_id      : {"k1"},
      client_name    : {"Ann"},
      title          : {"Sketch"},
      description    : {""},
      price          : {None} \cup {Some(p) : p \in MapperPrices},
      price_cents    : {None} \cup {Some(p) : p \in MapperCents},
      payment_status : StoragePaymentStatusEnum \cup {"Paid"},
      status         : WorkStatusEnum,
      created_at     : {toISOString(0), toISOString(1)},
      updated_at     : {toISOString(MaxTime)},
      images         : {<<>>, <<"img.png">>} ]

Threw == [threw |-> TRUE]

MapperInit ==
    /\ mIn \in MapperInputs
    /\ mDomain = None
    /\ mBack = None
    /\ mPc = "input"
    /\ now \in 0 .. MaxTime
    /\ BackupIdle
    /\ SyncIdle
    /\ RestIdle

MapToDomain ==
    /\ mPc = "input"
    /\ mDomain' = storageCommissionToDomain(mIn)
    /\ mPc' = "mapped"
    /\ UNCHANGED <<mIn, mBack, now, backupVars, syncVars, restVars>>

\* domainCommissionToStorage(undefined) throws a TypeError
MapToStorage ==
    /\ mPc = "mapped"
    /\ mBack' = IF mDomain = None THEN Some(Threw)
                ELSE Some(domainCommissionToStorage(Val(mDomain), now))
    /\ mPc' = "stored"
    /\ UNCHANGED <<mIn, mDomain, now, backupVars, syncVars, restVars>>

MapperNext == MapToDomain \/ MapToStorage

SpecMapper == MapperInit /\ [][MapperNext]_vars

(***************************************************************************)
(* SpecBackup: saveWithBackup / loadWithBackupFallback over localStorage.  *)
(* saveWithBackup is synchronous, so no other call runs inside it; it is   *)
(* split at its localStorage writes because any of them can throw (quota)  *)
(* or be the last thing the process does.                                  *)
(***************************************************************************)
\* the keys the calls are made with ('settings' is the repository's call site)
BackupOpKeys == {"settings", "clients"}

\* the values saved under 'settings': two settings objects (the second with
\* a blank to trim), a string of markup, an object whose string nests one
\* 'javascript:' in another, and undefined; under 'clients': an
\* array holding a string with a trailing blank
BackupValues(key) ==
    IF key = "settings"
    THEN { JObj([userName |-> JStr(<<"a">>), animations |-> JBool(TRUE)]),
           JObj([userName |-> JStr(<<" ", "a">>), animations |-> JBool(FALSE)]),
           JStr(<<"on", "a", "=", "java", "script:", "a">>),
           JObj([userName |-> JStr(<<"java", "java", "script:", "script:">>)]),
           JUndef }
    ELSE { JArr(<<JStr(<<"a", " ">>)>>) }

\* what an external writer (or a truncated write) leaves under a key
CorruptTexts == {Raw("garbage"), Raw("")}

\* no saveWithBackup call is on the stack
NoCallRunning == bk.pc \in {"idle", "returned", "threw"}

\* the last two completed calls
Record(h, r) == IF Len(h) < 2 THEN Append(h, r) ELSE <<h[2], r>>

BackupInit ==
    /\ MapperIdle
    /\ now = 0
    /\ BackupIdle
    /\ SyncIdle
    /\ RestIdle

\* (mutant) lines 37-41 with the backup step skipped
SaveBeginNoCapture(key, data) ==
    /\ NoCallRunning
    /\ bk' = [ pc          |-> "write",
               key         |-> key,
               data        |-> data,
               dataString  |-> JSONstringify(sanitizeForStorage(data)),
               currentData |-> getItem(localStorage, BACKUP_KEYS[key]) ]
    /\ UNCHANGED <<localStorage, hist, lastRestore, now, mapperVars, syncVars, restVars>>

\* saveWithBackup, lines 37-45: sanitize, stringify, read the current value
SaveBegin(key, data) ==
    /\ NoCallRunning
    /\ LET currentData == getItem(localStorage, BACKUP_KEYS[key])
       IN  bk' = [ pc          |-> IF Truthy(currentData) /\ HasBackupKey(key)
                                   THEN "capture" ELSE "write",
                   key         |-> key,
                   data        |-> data,
                   dataString  |-> JSONstringify(sanitizeForStorage(data)),
                   currentData |-> currentData ]
    /\ UNCHANGED <<localStorage, hist, lastRestore, now, mapperVars, syncVars, restVars>>

\* (mutant) the backup receives the new value instead of the current one
SaveCaptureNewValue ==
    /\ bk.pc = "capture"
    /\ localStorage' = setItem(localStorage, BACKUP_KEYS[BackupKeyOf(bk.key)], bk.dataString)
    /\ bk' = [bk EXCEPT !.pc = "write"]
    /\ UNCHANGED <<hist, lastRestore, now, mapperVars, syncVars, restVars>>

\* line 46: localStorage.setItem(BACKUP_KEYS[backupKey], currentData)
SaveCapture ==
    /\ bk.pc = "capture"
    /\ localStorage' = setItem(localStorage, BACKUP_KEYS[BackupKeyOf(bk.key)], bk.currentData)
    /\ bk' = [bk EXCEPT !.pc = "write"]
    /\ UNCHANGED <<hist, lastRestore, now, mapperVars, syncVars, restVars>>

\* (mutant) the new value is written under the backup key, not the primary
SaveWriteWrongKey ==
    /\ bk.pc = "write"
    /\ localStorage' = setItem(localStorage, BACKUP_KEYS.settingsBackup, bk.dataString)
    /\ bk' = [bk EXCEPT !.pc = "stamp"]
    /\ UNCHANGED <<hist, lastRestore, now, mapperVars, syncVars, restVars>>

\* line 50: localStorage.setItem(BACKUP_KEYS[key], dataString)
SaveWrite ==
    /\ bk.pc = "write"
    /\ localStorage' = setItem(localStorage, BACKUP_KEYS[bk.key], bk.dataString)
    /\ bk' = [bk EXCEPT !.pc = "stamp"]
    /\ UNCHANGED <<hist, lastRestore, now, mapperVars, syncVars, restVars>>

\* lines 51-54: the timestamp is written and the call returns true
SaveStamp ==
    /\ bk.pc = "stamp"
    /\ localStorage' = setItem(localStorage, BACKUP_KEYS.lastBackup, IsoText(now))
    /\ bk' = [bk EXCEPT !.pc = "returned"]
    /\ hist' = Record(hist, [op |-> "save", key |-> bk.key, data |-> bk.data, ret |-> JBool(TRUE)])
    /\ UNCHANGED <<lastRestore, now, mapperVars, syncVars, restVars>>

\* lines 55-58: the pending setItem throws; the call returns false
SaveThrow ==
    /\ bk.pc \in {"capture", "write", "stamp"}
    /\ bk' = [bk EXCEPT !.pc = "threw"]
    /\ hist' = Record(hist, [op |-> "save", key |-> bk.key, data |-> bk.data, ret |-> JBool(FALSE)])
    /\ UNCHANGED <<localStorage, lastRestore, now, mapperVars, syncVars, restVars>>

\* a loadWithBackupFallback(key) call
Load(key) ==
    /\ NoCallRunning
    /\ hist' = Record(hist, [op |-> "load", key |-> key, data |-> JNull,
                             ret |-> loadWithBackupFallback(localStorage, key)])
    /\ UNCHANGED <<localStorage, bk, lastRestore, now, mapperVars, syncVars, restVars>>

\* the primary value under a key is replaced with unparsable data from outside
Corrupt(key, text) ==
    /\ NoCallRunning
    /\ getItem(localStorage, BACKUP_KEYS[key]) # text
    /\ localStorage' = setItem(localStorage, BACKUP_KEYS[key], text)
    /\ bk' = IdleCall
    /\ hist' = <<>>
    /\ UNCHANGED <<lastRestore, now, mapperVars, syncVars, restVars>>

Save == \E key \in BackupOpKeys : \E data \in BackupValues(key) : SaveBegin(key, data)
LoadAny == \E key \in BackupOpKeys : Load(key)
CorruptAny == \E key \in BackupOpKeys, text \in CorruptTexts : Corrupt(key, text)

BackupNext ==
    \/ Save
    \/ SaveCapture
    \/ SaveWrite
    \/ SaveStamp
    \/ SaveThrow
    \/ LoadAny
    \/ CorruptAny

SpecBackup == BackupInit /\ [][BackupNext]_vars

(***************************************************************************)
(* restoreFromBackup and the emergency snapshots                           *)
(***************************************************************************)
KeepEmergency == 3                        \* emergencyKeys.slice(3)

\* JavaScript truthiness of a value
JsTruthy(v) == v \notin {JNull, JUndef, JBool(FALSE), JStr(<<>>)}

\* x || dflt
OrElse(x, dflt) == IF JsTruthy(x) THEN x ELSE dflt

\* a timestamp string as a value
JIso(n) == [t |-> "timestamp", iso |-> toISOString(n)]

\* BackupManager.createFullBackup
createFullBackup(ls, n) ==
    JObj([ clients            |-> OrElse(loadWithBackupFallback(ls, "clients"), JArr(<<>>)),
           pendingCommissions |-> OrElse(loadWithBackupFallback(ls, "pending"), JArr(<<>>)),
           historyCommissions |-> OrElse(loadWithBackupFallback(ls, "history"), JArr(<<>>)),
           settings           |-> OrElse(loadWithBackupFallback(ls, "settings"), JObj(<<>>)),
           timestamp          |-> JIso(n),
           version            |-> JStr(<<"1.0.0">>) ])

\* BackupManager.validateBackupData
validateBackupData(data) ==
    /\ data.t = "object"
    /\ {"clients", "pendingCommissions", "historyCommissions", "settings"} \subseteq DOMAIN data.f

RECURSIVE LexLess(_, _)
\* string comparison, character by character
LexLess(a, b) ==
    IF b = <<>> THEN FALSE
    ELSE IF a = <<>> THEN TRUE
    ELSE IF a[1] # b[1] THEN a[1] < b[1]
    ELSE LexLess(Tail(a), Tail(b))

\* the order of two keys that start with EmergencyPrefix
KeyLess(a, b) == LexLess(Tail(a), Tail(b))

RECURSIVE SortKeys(_)
\* Array.prototype.sort() on a set of distinct keys: ascending
SortKeys(S) ==
    IF S = {} THEN <<>>
    ELSE LET m == CHOOSE x \in S : \A y \in S \ {x} : KeyLess(x, y)
         IN  <<m>> \o SortKeys(S \ {m})

\* Array.prototype.reverse()
Reverse(q) == [i \in 1 .. Len(q) |-> q[Len(q) + 1 - i]]

\* Object.keys(localStorage).filter(key => key.startsWith(prefix))
EmergencyKeys(ls) == {k \in DOMAIN ls : k[1] = EmergencyPrefix}

RECURSIVE RemoveAll(_, _)
RemoveAll(ls, q) == IF q = <<>> THEN ls ELSE RemoveAll(removeItem(ls, q[1]), Tail(q))

\* (mutant) the sorted keys are not reversed: the oldest three survive
cleanupEmergencyBackupsOldestFirst(ls) ==
    LET emergencyKeys == SortKeys(EmergencyKeys(ls))
    IN  RemoveAll(ls, SubSeq(emergencyKeys, KeepEmergency + 1, Len(emergencyKeys)))

\* BackupManager.cleanupEmergencyBackups
cleanupEmergencyBackups(ls) ==
    LET emergencyKeys == Reverse(SortKeys(EmergencyKeys(ls)))
    IN  RemoveAll(ls, SubSeq(emergencyKeys, KeepEmergency + 1, Len(emergencyKeys)))

\* BackupManager.createEmergencyBackup; ok = FALSE when its setItem throws
\* (quota), which the method swallows without cleaning up
createEmergencyBackup(ls, n, ok) ==
    IF ok
    THEN cleanupEmergencyBackups(
             setItem(ls, EmergencyKey(n), JSONstringify(createFullBackup(ls, n))))
    ELSE ls

\* the setItem calls of restoreFromBackup, lines 127-144, in order
RestoreWrites(data, n) ==
    LET field(name, key) ==
            IF JsTruthy(data.f[name])
            THEN <<[key |-> BACKUP_KEYS[key], text |-> JSONstringify(data.f[name])]>>
            ELSE <<>>
    IN  field("clients", "clients") \o field("pendingCommissions", "pending")
        \o field("historyCommissions", "history") \o field("settings", "settings")
        \o <<[key |-> BACKUP_KEYS.lastBackup, text |-> IsoText(n)]>>

RECURSIVE ApplyWrites(_, _)
ApplyWrites(ls, w) ==
    IF w = <<>> THEN ls ELSE ApplyWrites(setItem(ls, w[1].key, w[1].text), Tail(w))

(***************************************************************************)
(* SpecRestore: restoreFromBackup calls as the clock advances              *)
(***************************************************************************)
RestoreInputs ==
    { JObj([ clients |-> JArr(<<JStr(<<"a">>)>>), pendingCommissions |-> JArr(<<>>),
             historyCommissions |-> JArr(<<>>), settings |-> JObj(<<>>) ]),
      JObj([ clients |-> JNull, pendingCommissions |-> JArr(<<>>),
             historyCommissions |-> JArr(<<>>), settings |-> JObj(<<>>) ]),
      JObj([ clients |-> JArr(<<>>) ]) }

\* BackupManager.restoreFromBackup(data).  emOk: the emergency setItem does
\* not throw; failAt = i > 0: the i-th later setItem throws and the call
\* returns false with the earlier writes applied.
RestoreFromBackup(data, emOk, failAt) ==
    /\ NoCallRunning
    /\ IF ~validateBackupData(data)
       THEN /\ lastRestore' = [ran |-> TRUE, ret |-> FALSE, cleaned |-> FALSE, before |-> {}]
            /\ UNCHANGED localStorage
       ELSE LET ls1 == createEmergencyBackup(localStorage, now, emOk)
                w == RestoreWrites(data, now)
            IN  /\ failAt <= Len(w)
                /\ localStorage' = ApplyWrites(ls1,
                        IF failAt = 0 THEN w ELSE SubSeq(w, 1, failAt - 1))
                /\ lastRestore' = [ ran |-> TRUE, ret |-> (failAt = 0), cleaned |-> emOk,
                                    before |-> IF emOk
                                               THEN EmergencyKeys(localStorage) \cup {EmergencyKey(now)}
                                               ELSE {} ]
    /\ UNCHANGED <<bk, hist, now, mapperVars, syncVars, restVars>>

Restore == \E data \in RestoreInputs, emOk \in BOOLEAN, failAt \in 0 .. 5 :
               RestoreFromBackup(data, emOk, failAt)

\* time passes
Tick ==
    /\ now < MaxTime
    /\ now' = now + 1
    /\ UNCHANGED <<backupVars, mapperVars, syncVars, restVars>>

RestoreNext == Restore \/ Tick

SpecRestore == BackupInit /\ [][RestoreNext]_vars

(***************************************************************************)
(* SpecSync: useDataSync, triggerDataSync and the providers' load effects. *)
(* JavaScript is single-threaded: a handler runs to its first await, and   *)
(* each resolution of an awaited store call is one step.  A store call may *)
(* reject.  Work started before an unmount runs on ("orphan": its setState *)
(* calls reach no mounted provider); nothing is ever cancelled.            *)
(***************************************************************************)
\* the part of the state syncNow reads and writes
SyncState ==
    [ flag |-> isCurrentlySyncing, bodies |-> bodies, flight |-> flight,
      clientIsLoading |-> clientIsLoading, effectDue |-> effectDue ]

\* the start of loadAllClients and loadAllCommissions inside a sync body:
\* setIsLoading(true) (a re-render of ClientProvider if it was false), then
\* getClients() and getCommissions('pending') are issued
StartBody(s) ==
    [ s EXCEPT
        !.flag = TRUE,
        !.bodies = Append(@, [c |-> "fetch", m |-> "pending", live |-> TRUE]),
        !.flight = IF s.bodies = <<>>
                   THEN [calls |-> 1, clients |-> 1, pending |-> 1, completed |-> 0,
                         pendingFailed |-> FALSE]
                   ELSE [@ EXCEPT !.calls = @ + 1, !.clients = @ + 1, !.pending = @ + 1],
        !.clientIsLoading = TRUE,
        !.effectDue = @ \/ ~s.clientIsLoading ]

\* (mutant) syncNow without its guard
syncNowUnguarded(s) == StartBody(s)

\* useDataSync.syncNow, lines 177-187: return at once if a sync is in flight,
\* else set the flag and start both loads
syncNow(s) ==
    IF s.flag
    THEN [s EXCEPT !.flight.calls = @ + 1]
    ELSE StartBody(s)

\* the five variables take the values of SyncState s
SetSyncState(s) ==
    /\ isCurrentlySyncing' = s.flag
    /\ bodies' = s.bodies
    /\ flight' = s.flight
    /\ clientIsLoading' = s.clientIsLoading
    /\ effectDue' = s.effectDue

otherVars == <<mapperVars, backupVars, now, restVars>>

\* The tree mounts (useDataSync's enabled parameter is the caller's choice;
\* DataSyncWrapper passes false).  Effects run children first, in one commit: useDataSync
\* registers syncNow (and starts polling if enabled), DataSyncWrapper calls
\* syncNow(), CommissionProvider's effect starts its own commission load and
\* ClientProvider's effect its own client load.  Provider state is fresh.
Mount(enabled) ==
    /\ ~app.mounted
    /\ mounts < MaxMounts
    /\ mounts' = mounts + 1
    /\ app' = [mounted |-> TRUE, enabled |-> enabled]
    /\ globalSyncFunction' = "syncNow"
    /\ SetSyncState(syncNow([SyncState EXCEPT !.clientIsLoading = TRUE, !.effectDue = FALSE]))
    /\ commLoads' = [commLoads EXCEPT !.pending = @ + 1]
    /\ clientLoads' = [clientLoads EXCEPT !.live = @ + 1]
    /\ UNCHANGED <<calls, otherVars>>

\* The tree unmounts: the registration effect's cleanup clears
\* globalSyncFunction, the interval is cleared; loads in flight run on.
Unmount ==
    /\ app.mounted
    /\ app' = [mounted |-> FALSE, enabled |-> FALSE]
    /\ globalSyncFunction' = "null"
    /\ bodies' = [i \in DOMAIN bodies |-> [bodies[i] EXCEPT !.live = FALSE]]
    /\ clientLoads' = [live |-> 0, orphan |-> clientLoads.orphan + clientLoads.live]
    /\ commLoads' = [ pending |-> 0, completed |-> 0,
                      orphanPending |-> commLoads.orphanPending + commLoads.pending,
                      orphanCompleted |-> commLoads.orphanCompleted + commLoads.completed ]
    /\ effectDue' = FALSE
    /\ UNCHANGED <<isCurrentlySyncing, clientIsLoading, flight, calls, mounts, otherVars>>

\* a component calls the syncNow it got from useDataSync
SyncNowCall ==
    /\ app.mounted
    /\ calls < MaxCalls
    /\ calls' = calls + 1
    /\ SetSyncState(syncNow(SyncState))
    /\ UNCHANGED <<globalSyncFunction, app, clientLoads, commLoads, mounts, otherVars>>

\* setInterval(syncNow, intervalMs) fires
TimerTick ==
    /\ app.mounted
    /\ app.enabled
    /\ calls < MaxCalls
    /\ calls' = calls + 1
    /\ SetSyncState(syncNow(SyncState))
    /\ UNCHANGED <<globalSyncFunction, app, clientLoads, commLoads, mounts, otherVars>>

\* (mutant) triggerDataSync without the check that a function is registered
TriggerDataSyncUnchecked ==
    /\ calls < MaxCalls
    /\ calls' = calls + 1
    /\ IF isCurrentlySyncing
       THEN SetSyncState([SyncState EXCEPT !.flight.calls = @ + 1])
       ELSE SetSyncState(syncNow(SyncState))
    /\ UNCHANGED <<globalSyncFunction, app, clientLoads, commLoads, mounts, otherVars>>

\* triggerDataSync, lines 227-237
TriggerDataSync ==
    /\ calls < MaxCalls
    /\ calls' = calls + 1
    /\ IF isCurrentlySyncing
       THEN SetSyncState([SyncState EXCEPT !.flight.calls = @ + 1])
       ELSE IF globalSyncFunction = "syncNow"
            THEN SetSyncState(syncNow(SyncState))
            ELSE SetSyncState(SyncState)
    /\ UNCHANGED <<globalSyncFunction, app, clientLoads, commLoads, mounts, otherVars>>

\* ClientProvider re-renders after a client load settles: ok, setClients with a
\* new array; failed, isLoading goes from true to false
RenderAfterClientLoad(live, ok, emptied) ==
    /\ clientIsLoading' = IF live THEN FALSE ELSE clientIsLoading
    /\ effectDue' = (effectDue \/ (live /\ (ok \/ emptied \/ clientIsLoading)))

\* getClients() of sync body i settles (loadAllClients, lines 157-167)
BodyClientsSettle(i, ok) ==
    /\ i \in DOMAIN bodies
    /\ bodies[i].c = "fetch"
    /\ bodies' = [bodies EXCEPT ![i].c = "done"]
    /\ RenderAfterClientLoad(bodies[i].live, ok, FALSE)
    /\ UNCHANGED <<isCurrentlySyncing, globalSyncFunction, app, clientLoads, commLoads,
                   flight, calls, mounts, otherVars>>

\* getCommissions('pending') of sync body i settles (loadAllCommissions,
\* lines 225-236): on success getCommissions('completed') is issued
BodyPendingSettle(i, ok) ==
    /\ i \in DOMAIN bodies
    /\ bodies[i].m = "pending"
    /\ bodies' = [bodies EXCEPT ![i].m = IF ok THEN "completed" ELSE "done"]
    /\ flight' = IF ok THEN [flight EXCEPT !.completed = @ + 1]
                 ELSE [flight EXCEPT !.pendingFailed = TRUE]
    /\ UNCHANGED <<isCurrentlySyncing, globalSyncFunction, app, clientIsLoading, effectDue,
                   clientLoads, commLoads, calls, mounts, otherVars>>

\* getCommissions('completed') of sync body i settles (lines 236-254)
BodyCompletedSettle(i, ok) ==
    /\ i \in DOMAIN bodies
    /\ bodies[i].m = "completed"
    /\ bodies' = [bodies EXCEPT ![i].m = "done"]
    /\ UNCHANGED <<isCurrentlySyncing, globalSyncFunction, app, clientIsLoading, effectDue,
                   clientLoads, commLoads, flight, calls, mounts, otherVars>>

\* (mutant) a sync body that ends without its finally block
SyncFinishKeepsFlag(i) ==
    /\ i \in DOMAIN bodies
    /\ bodies[i].c = "done"
    /\ bodies[i].m = "done"
    /\ bodies' = [j \in 1 .. Len(bodies) - 1 |-> IF j < i THEN bodies[j] ELSE bodies[j + 1]]
    /\ UNCHANGED <<isCurrentlySyncing, globalSyncFunction, app, clientIsLoading, effectDue,
                   clientLoads, commLoads, flight, calls, mounts, otherVars>>

\* Promise.all of body i has resolved: finally { isCurrentlySyncing = false }
SyncFinish(i) ==
    /\ i \in DOMAIN bodies
    /\ bodies[i].c = "done"
    /\ bodies[i].m = "done"
    /\ isCurrentlySyncing' = FALSE
    /\ bodies' = [j \in 1 .. Len(bodies) - 1 |-> IF j < i THEN bodies[j] ELSE bodies[j + 1]]
    /\ UNCHANGED <<globalSyncFunction, app, clientIsLoading, effectDue, clientLoads,
                   commLoads, flight, calls, mounts, otherVars>>

\* getClients() of a ClientProvider mount-effect load settles (lines 57-71);
\* on failure the effect calls setClients([])
ClientLoadSettle(live, ok) ==
    /\ IF live THEN clientLoads.live > 0 ELSE clientLoads.orphan > 0
    /\ clientLoads' = IF live THEN [clientLoads EXCEPT !.live = @ - 1]
                      ELSE [clientLoads EXCEPT !.orphan = @ - 1]
    /\ RenderAfterClientLoad(live, ok, TRUE)
    /\ UNCHANGED <<isCurrentlySyncing, globalSyncFunction, app, bodies, commLoads,
                   flight, calls, mounts, otherVars>>

\* getCommissions('pending') of a CommissionProvider effect load settles
\* (lines 179-195)
CommPendingSettle(live, ok) ==
    /\ IF live THEN commLoads.pending > 0 ELSE commLoads.orphanPending > 0
    /\ commLoads' =
         IF live
         THEN [commLoads EXCEPT !.pending = @ - 1,
                                !.completed = IF ok THEN @ + 1 ELSE @]
         ELSE [commLoads EXCEPT !.orphanPending = @ - 1,
                                !.orphanCompleted = IF ok THEN @ + 1 ELSE @]
    /\ UNCHANGED <<isCurrentlySyncing, globalSyncFunction, app, clientIsLoading, effectDue,
                   bodies, clientLoads, flight, calls, mounts, otherVars>>

\* getCommissions('completed') of a CommissionProvider effect load settles
\* (lines 195-213)
CommCompletedSettle(live) ==
    /\ IF live THEN commLoads.completed > 0 ELSE commLoads.orphanCompleted > 0
    /\ commLoads' = IF live THEN [commLoads EXCEPT !.completed = @ - 1]
                    ELSE [commLoads EXCEPT !.orphanCompleted = @ - 1]
    /\ UNCHANGED <<isCurrentlySyncing, globalSyncFunction, app, clientIsLoading, effectDue,
                   bodies, clientLoads, flight, calls, mounts, otherVars>>

\* CommissionProvider's load effect runs again: its dependency
\* convertStorageToLocal changed because getClientById is a new function on
\* every ClientProvider render (CommissionContext.tsx lines 156, 215)
CommissionEffect ==
    /\ app.mounted
    /\ effectDue
    /\ effectDue' = FALSE
    /\ commLoads' = [commLoads EXCEPT !.pending = @ + 1]
    /\ UNCHANGED <<isCurrentlySyncing, globalSyncFunction, app, clientIsLoading, bodies,
                   clientLoads, flight, calls, mounts, otherVars>>

SyncInit ==
    /\ MapperIdle
    /\ now = 0
    /\ BackupIdle
    /\ SyncIdle
    /\ RestIdle

SyncNext ==
    \/ \E enabled \in BOOLEAN : Mount(enabled)
    \/ Unmount
    \/ SyncNowCall
    \/ TimerTick
    \/ TriggerDataSync
    \/ \E i \in 1 .. Len(bodies), ok \in BOOLEAN : BodyClientsSettle(i, ok)
    \/ \E i \in 1 .. Len(bodies), ok \in BOOLEAN : BodyPendingSettle(i, ok)
    \/ \E i \in 1 .. Len(bodies), ok \in BOOLEAN : BodyCompletedSettle(i, ok)
    \/ \E i \in 1 .. Len(bodies) : SyncFinish(i)
    \/ \E live \in BOOLEAN, ok \in BOOLEAN : ClientLoadSettle(live, ok)
    \/ \E live \in BOOLEAN, ok \in BOOLEAN : CommPendingSettle(live, ok)
    \/ \E live \in BOOLEAN : CommCompletedSettle(live)
    \/ CommissionEffect

SpecSync == SyncInit /\ [][SyncNext]_vars

(***************************************************************************)
(* SpecPersist: PersistenceService over DataStorage, and validateArray.    *)
(*                                                                         *)
(* The strings the validators inspect are token sequences: in an id "c"    *)
(* and "1" are alphanumeric characters, "_" the underscore, "-" and " "    *)
(* characters outside [a-zA-Z0-9_]; in a name "A" is a letter, "." a dot   *)
(* and "/" one of the forbidden characters.  Descriptions use the tokens   *)
(* of sanitizeText; "load" stands for load, error or click.  A raw record  *)
(* read from the store is a record, or null.                               *)
(***************************************************************************)
MAX_ID_LENGTH == 64
MAX_NAME_LENGTH == 255
MAX_DESCRIPTION_LENGTH == 10000
MAX_EMAIL_LENGTH == 320
MAX_CONTACT_LENGTH == 50

IdChars == {"c", "k", "g", "1", "2", "_"}       \* [a-zA-Z0-9_]
DangerousNameChars == {"/", "<", ">", "|", ":", "*", "?"}

\* s.includes(pat)
Includes(s, pat) ==
    \E i \in 1 .. Len(s) - Len(pat) + 1 : SubSeq(s, i, i + Len(pat) - 1) = pat

\* validateId, validation.ts 19-32: TRUE when it returns, FALSE when it throws
validateId(id) ==
    /\ id # <<>>
    /\ Trim(id) # <<>>
    /\ Len(id) <= MAX_ID_LENGTH
    /\ \A i \in DOMAIN id : id[i] \in IdChars

\* validateName, validation.ts 34-48
validateName(name) ==
    /\ name # <<>>
    /\ Trim(name) # <<>>
    /\ Len(name) <= MAX_NAME_LENGTH
    /\ ~Includes(name, <<".", ".">>)
    /\ \A i \in DOMAIN name : name[i] \notin DangerousNameChars

\* validateEmail, validation.ts 50-70: anything without a dangerous
\* character passes, as an address or as free-form contact text
validateEmail(email) ==
    \/ email = <<>>
    \/ Trim(email) = <<>>
    \/ /\ Len(email) <= MAX_EMAIL_LENGTH
       /\ \A i \in DOMAIN email : email[i] \notin {"<", ">", "&"}

\* validateContact, validation.ts 72-86
validateContact(contact) ==
    \/ contact = <<>>
    \/ Trim(contact) = <<>>
    \/ /\ Len(contact) <= MAX_CONTACT_LENGTH
       /\ \A i \in DOMAIN contact : contact[i] \notin {"<", ">", "&"}

\* validateDescription, validation.ts 88-98
validateDescription(description) ==
    /\ Len(description) <= MAX_DESCRIPTION_LENGTH
    /\ ~Includes(description, <<"<script>">>)
    /\ ~Includes(description, <<"java", "script:">>)
    /\ ~Includes(description, <<"on", "load", "=">>)

\* validateStatus, validation.ts 100-105
validateStatus(status) == status \in {"pending", "in-progress", "completed"}

\* validatePaymentStatus, validation.ts 107-112
validatePaymentStatus(paymentStatus) ==
    paymentStatus \in {"Not Paid", "Half Paid", "Fully Paid"}

\* (mutant) a price check that lets a negative amount through
validatePriceCentsUnsigned(priceCents) ==
    /\ ~((priceCents \div Scale) \div 100000 >= 1000000)
    /\ IsInt(priceCents)

\* validatePriceCents, validation.ts 114-126; the limit 999_999_999_99 is
\* compared in units of 100 000 cents
validatePriceCents(priceCents) ==
    /\ ~(priceCents < 0)
    /\ ~((priceCents \div Scale) \div 100000 >= 1000000)
    /\ IsInt(priceCents)

\* s1 || s2 on optional strings: undefined and '' are falsy
StrOr(a, b) == IF a # None /\ Val(a) # <<>> THEN a ELSE b

\* StorageCommissionSchema.safeParse(r).success
CommissionParses(r) == r # JNull /\ StorageCommissionSchema(r)

\* StorageCommissionSchema.safeParse(r).data: description defaults to ''
CommissionData(r) ==
    [r EXCEPT !.description = IF @ = None THEN Some(<<>>) ELSE @]

\* StorageClientSchema.parse(r) succeeds: id, name, contact, created_at and
\* updated_at are required strings; email and profile_image are optional
StorageClientSchema(r) ==
    /\ r # JNull
    /\ r.id # None
    /\ r.name # None
    /\ r.contact # None
    /\ r.created_at # None
    /\ r.updated_at # None

RECURSIVE Compact(_)
\* .filter(Boolean) on a list of objects and nulls
Compact(list) ==
    IF list = <<>> THEN <<>>
    ELSE IF list[1] = JNull THEN Compact(Tail(list))
    ELSE <<list[1]>> \o Compact(Tail(list))

\* (mutant) a bulk load that gives up on the first invalid record
getCommissionsAllOrNothing(raw) ==
    IF \A i \in DOMAIN raw : CommissionParses(raw[i])
    THEN [i \in DOMAIN raw |-> CommissionData(raw[i])]
    ELSE <<>>

\* PersistenceService.getCommissions, lines 54-61: raw.map(...).filter(Boolean)
getCommissions(raw) ==
    Compact([i \in DOMAIN raw |->
                IF ~CommissionParses(raw[i]) THEN JNull ELSE CommissionData(raw[i])])

\* validateArray(StorageCommissionSchema, data), schemas.ts 85-89
validateArray(data) ==
    IF \A i \in DOMAIN data : CommissionParses(data[i])
    THEN [i \in DOMAIN data |-> CommissionData(data[i])]
    ELSE <<>>

\* the record getClients returns for a raw record r, lines 14-33; g is the
\* id DataStorage.generateId() makes up, t the clock
ClientOf(r, g, t) ==
    IF StorageClientSchema(r)
    THEN [r EXCEPT !.email = StrOr(r.email, Some(<<>>)),
                   !.contact = StrOr(r.contact, StrOr(r.email, Some(<<>>))),
                   !.profile_image = StrOr(r.profile_image, None)]
    ELSE [ id            |-> StrOr(r.id, Some(g)),
           name          |-> StrOr(r.name, Some(<<"U">>)),
           email         |-> StrOr(r.email, StrOr(r.contact, Some(<<>>))),
           contact       |-> StrOr(r.contact, StrOr(r.email, Some(<<>>))),
           profile_image |-> StrOr(r.profile_image, None),
           created_at    |-> IF r.created_at # None THEN r.created_at
                             ELSE Some(toISOString(t)),
           updated_at    |-> IF r.updated_at # None THEN r.updated_at
                             ELSE Some(toISOString(t)) ]

\* PersistenceService.getClients, lines 11-36: reading r.id of a null record
\* inside the catch block throws, and the whole call rejects
getClients(raw, g, t) ==
    IF \E i \in DOMAIN raw : raw[i] = JNull
    THEN [threw |-> TRUE, value |-> <<>>]
    ELSE [threw |-> FALSE, value |-> [i \in DOMAIN raw |-> ClientOf(raw[i], g, t)]]

\* DataStorage.saveCommission, dataManager.ts 249-258: every validator returns
DataStorageSaveCommissionChecks(c) ==
    /\ validateId(c.id)
    /\ validateId(c.client_id)
    /\ validateName(c.client_name)
    /\ validateName(c.title)
    /\ c.description # None
    /\ validateDescription(Val(c.description))
    /\ (c.price_cents # None => validatePriceCents(Val(c.price_cents)))
    /\ validatePaymentStatus(c.payment_status)
    /\ validateStatus(c.status)

\* DataStorage.saveClient, dataManager.ts 224-227, on the object
\* PersistenceService.saveClient hands it
DataStorageSaveClientChecks(c) ==
    /\ validateId(Val(c.id))
    /\ validateName(Val(c.name))
    /\ validateEmail(Val(StrOr(c.email, Some(<<>>))))
    /\ validateContact(Val(c.contact))

\* The record store (the Tauri backend behind invoke): save_commission files
\* a record under the bucket of its status, replacing the record of the same
\* id there; save_client replaces or adds the client of that id.
Upsert(list, rec) ==
    IF \E i \in DOMAIN list : list[i] # JNull /\ list[i].id = rec.id
    THEN [i \in DOMAIN list |->
            IF list[i] # JNull /\ list[i].id = rec.id THEN rec ELSE list[i]]
    ELSE Append(list, rec)

BucketOf(status) == IF status = "completed" THEN "completed" ELSE "pending"

StoreSaveCommission(st, c) ==
    [st EXCEPT ![BucketOf(c.status)] = Upsert(@, c)]

StoreSaveClient(st, c) == [st EXCEPT !.clients = Upsert(@, c)]

\* -- the inputs --
BaseCommission ==
    [ id             |-> <<"c", "1">>,
      client_id      |-> <<"k", "1">>,
      client_name    |-> <<"A">>,
      title          |-> <<"A", " ", "A">>,
      description    |-> Some(<<"a">>),
      price          |-> None,
      price_cents    |-> Some(Num(4999)),
      payment_status |-> "Not Paid",
      status         |-> "pending",
      created_at     |-> toISOString(0),
      updated_at     |-> toISOString(1),
      images         |-> <<>> ]

\* what a bucket of the store may hold: a valid record, one with an unknown
\* payment status, a legacy one (price only, no description) and a null entry
RawCommissions ==
    { BaseCommission,
      [BaseCommission EXCEPT !.id = <<"c", "2">>, !.payment_status = "Paid"],
      [BaseCommission EXCEPT !.id = <<"c", "_", "1">>, !.description = None,
                             !.price = Some(125), !.price_cents = None],
      JNull }

RECURSIVE SeqsUpTo(_, _)
\* the sequences over S of length at most n
SeqsUpTo(S, n) ==
    IF n = 0 THEN {<<>>}
    ELSE LET shorter == SeqsUpTo(S, n - 1)
         IN  shorter \cup {Append(q, x) : q \in {r \in shorter : Len(r) = n - 1}, x \in S}

\* the records a caller may hand to saveCommission
CommissionArgs ==
    { BaseCommission,
      [BaseCommission EXCEPT !.id = <<"c", "2">>, !.status = "completed"],
      [BaseCommission EXCEPT !.id = <<>>],
      [BaseCommission EXCEPT !.id = <<" ">>],
      [BaseCommission EXCEPT !.id = <<"c", "-", "1">>],
      [BaseCommission EXCEPT !.client_id = <<>>],
      [BaseCommission EXCEPT !.client_name = <<"A", "/">>],
      [BaseCommission EXCEPT !.title = <<>>],
      [BaseCommission EXCEPT !.title = <<".", ".">>],
      [BaseCommission EXCEPT !.description = None],
      [BaseCommission EXCEPT !.description = Some(<<"java", "script:", "a">>)],
      [BaseCommission EXCEPT !.price_cents = None],
      [BaseCommission EXCEPT !.price_cents = Some(Num(-1))],
      [BaseCommission EXCEPT !.price_cents = Some(49500)],
      [BaseCommission EXCEPT !.status = "done"],
      [BaseCommission EXCEPT !.payment_status = "Paid"] }

BaseClient ==
    [ id            |-> Some(<<"k", "1">>),
      name          |-> Some(<<"A">>),
      email         |-> None,
      contact       |-> Some(<<"A">>),
      profile_image |-> None,
      created_at    |-> Some(toISOString(0)),
      updated_at    |-> Some(toISOString(0)) ]

\* a valid client, a legacy one with an email and no contact, one with
\* neither id nor name, and a null entry
RawClients ==
    { BaseClient,
      [BaseClient EXCEPT !.id = Some(<<"k", "2">>), !.email = Some(<<"A">>),
                         !.contact = None],
      [BaseClient EXCEPT !.id = None, !.name = None, !.updated_at = None],
      JNull }

ClientArgs ==
    { BaseClient,
      [BaseClient EXCEPT !.id = Some(<<"k", "2">>), !.contact = Some(<<>>)],
      [BaseClient EXCEPT !.id = Some(<<>>)],
      [BaseClient EXCEPT !.id = Some(<<"k", " ">>)],
      [BaseClient EXCEPT !.name = Some(<<" ">>)],
      [BaseClient EXCEPT !.name = Some(<<"A", "/">>)],
      [BaseClient EXCEPT !.name = None],
      [BaseClient EXCEPT !.contact = None] }

GeneratedIds == {<<"g", "1">>, <<"g", "2">>}
Buckets == {"pending", "completed"}

notPersistVars == <<mapperVars, backupVars, now, syncVars, ctxVars>>

\* PersistenceService.getCommissions(bucket); the store read may reject
GetCommissions(bucket, ok) ==
    /\ pCall' = [ op |-> "getCommissions", arg |-> store[bucket], invoked |-> TRUE,
                  before |-> store,
                  rejected |-> ~ok,
                  result |-> IF ok THEN getCommissions(store[bucket]) ELSE <<>> ]
    /\ UNCHANGED <<store, notPersistVars>>

\* PersistenceService.getClients()
GetClients(g, ok) ==
    /\ pCall' = [ op |-> "getClients", arg |-> store.clients, invoked |-> TRUE,
                  read |-> ok,
                  before |-> store,
                  rejected |-> ~ok \/ getClients(store.clients, g, now).threw,
                  result |-> IF ok THEN getClients(store.clients, g, now).value ELSE <<>> ]
    /\ UNCHANGED <<store, notPersistVars>>

\* validateArray(StorageCommissionSchema, data) on the contents of a bucket
ValidateArray(bucket) ==
    /\ pCall' = [ op |-> "validateArray", arg |-> store[bucket], invoked |-> FALSE,
                  before |-> store, rejected |-> FALSE,
                  result |-> validateArray(store[bucket]) ]
    /\ UNCHANGED <<store, notPersistVars>>

\* PersistenceService.saveCommission(c), lines 64-67, down to the invoke in
\* DataStorage.saveCommission; the store write may reject, writing nothing
SaveCommission(c, ok) ==
    LET parses == StorageCommissionSchema(c)
        passes == parses /\ DataStorageSaveCommissionChecks(c)
    IN  /\ passes \/ ok
        /\ pCall' = [ op |-> "saveCommission", arg |-> c, invoked |-> passes,
                      before |-> store,
                      rejected |-> ~(passes /\ ok),
                      result |-> IF ~parses THEN "ZodError"
                                 ELSE IF ~passes THEN "ValidationError"
                                 ELSE IF ok THEN "ok" ELSE "StoreError" ]
        /\ store' = IF passes /\ ok THEN StoreSaveCommission(store, c) ELSE store
        /\ UNCHANGED notPersistVars

\* PersistenceService.saveClient(c), lines 38-45, down to the invoke in
\* DataStorage.saveClient
SaveClient(c, ok) ==
    LET parses == StorageClientSchema(c)
        passes == parses /\ DataStorageSaveClientChecks(c)
        sent == [c EXCEPT !.email = StrOr(c.email, Some(<<>>)),
                          !.profile_image = StrOr(c.profile_image, None)]
    IN  /\ passes \/ ok
        /\ pCall' = [ op |-> "saveClient", arg |-> c, invoked |-> passes,
                      before |-> store,
                      rejected |-> ~(passes /\ ok),
                      result |-> IF ~parses THEN "ZodError"
                                 ELSE IF ~passes THEN "ValidationError"
                                 ELSE IF ok THEN "ok" ELSE "StoreError" ]
        /\ store' = IF passes /\ ok THEN StoreSaveClient(store, sent) ELSE store
        /\ UNCHANGED notPersistVars

PersistInit ==
    /\ MapperIdle
    /\ now = 0
    /\ BackupIdle
    /\ SyncIdle
    /\ CtxIdle
    /\ pCall = NoCall
    /\ \/ /\ store \in [ clients : {<<BaseClient>>},
                         pending : SeqsUpTo(RawCommissions, MaxRaw),
                         completed : {<<>>} ]
       \/ /\ store \in [ clients : SeqsUpTo(RawClients, MaxRawClients),
                         pending : {<<BaseCommission>>},
                         completed : {<<>>} ]

PersistNext ==
    \/ \E bucket \in Buckets, ok \in BOOLEAN : GetCommissions(bucket, ok)
    \/ \E g \in GeneratedIds, ok \in BOOLEAN : GetClients(g, ok)
    \/ \E bucket \in Buckets : ValidateArray(bucket)
    \/ \E c \in CommissionArgs, ok \in BOOLEAN : SaveCommission(c, ok)
    \/ \E c \in ClientArgs, ok \in BOOLEAN : SaveClient(c, ok)

SpecPersist == PersistInit /\ [][PersistNext]_vars

(***************************************************************************)
(* SpecContext: CommissionProvider and ClientProvider over the             *)
(* PersistenceService.  An operation runs to its await in one step and     *)
(* goes on when the store answers; what it read from the provider state    *)
(* before the await (its closure) is what it still uses after it.          *)
(***************************************************************************)
\* ClientProvider.getClientById on the client list cl
getClientById(cl, id) ==
    IF \E i \in DOMAIN cl : cl[i].id = id
    THEN Some(cl[CHOOSE i \in DOMAIN cl :
                    cl[i].id = id /\ \A j \in 1 .. i - 1 : cl[j].id # id])
    ELSE None

\* the ClientInfo part of a client object (the other fields it carries into a
\* commission are never read)
ClientInfoOf(client) ==
    [ id |-> client.id, name |-> client.name, contactInfo |-> client.contactInfo,
      pfp |-> client.pfp ]

\* ClientProvider.convertStorageClient, ClientContext.tsx 46-55
convertStorageClient(sc) ==
    [ id               |-> Val(sc.id),
      name             |-> Val(sc.name),
      contactInfo      |-> Val(StrOr(sc.email, sc.contact)),
      pfp              |-> sc.profile_image,
      totalCommissions |-> 0,
      joinDate         |-> DatePart(Val(sc.created_at)),
      lastCommission   |-> None ]

\* CommissionProvider.convertStorageToLocal, lines 123-156, with the client
\* list of its closure; None when it throws (the mapper returned undefined)
convertStorageToLocal(s, cl) ==
    LET normalized ==
            [s EXCEPT !.price =
                IF s.price = None /\ s.price_cents # None
                THEN Some(Val(s.price_cents) \div 100)
                ELSE IF s.price = None THEN Some(0) ELSE @]
        domain == storageCommissionToDomain(normalized)
    IN  IF domain = None THEN None
        ELSE LET dm == Val(domain)
                 found == getClientById(cl, dm.client.id)
                 completed == dm.status = "Completed"
             IN  Some(
                 [ id            |-> dm.id,
                   client        |-> IF found # None THEN ClientInfoOf(Val(found))
                                     ELSE [dm.client EXCEPT !.contactInfo = <<>>],
                   commType      |-> dm.commType,
                   price         |-> dm.priceCents \div 100,
                   description   |-> dm.description,
                   refs          |-> dm.refs,
                   date          |-> dm.date,
                   paymentStatus |-> dm.paymentStatus,
                   status        |-> dm.status,
                   originalDate  |-> IF ~completed THEN None
                                     ELSE IF dm.originalDate # None THEN dm.originalDate
                                     ELSE Some(dm.date),
                   completedDate |-> IF ~completed THEN None
                                     ELSE IF dm.completedDate # None THEN dm.completedDate
                                     ELSE Some(dm.date) ])

\* CommissionProvider.convertLocalToStorage, lines 158-173, at clock t
convertLocalToStorage(c, t) ==
    domainCommissionToStorage(
        [ id            |-> c.id,
          client        |-> c.client,
          commType      |-> c.commType,
          priceCents    |-> MathRound(c.price * 100),
          description   |-> c.description,
          refs          |-> c.refs,
          date          |-> c.date,
          paymentStatus |-> c.paymentStatus,
          status        |-> c.status,
          originalDate  |-> c.originalDate,
          completedDate |-> c.completedDate ], t)

\* (mutant) a conversion that gives up the whole list on the first failure
ConvertAllOrNothing(list, cl) ==
    IF \E i \in DOMAIN list : convertStorageToLocal(list[i], cl) = None
    THEN <<>>
    ELSE [i \in DOMAIN list |-> Val(convertStorageToLocal(list[i], cl))]

RECURSIVE ConvertAll(_, _)
\* (await Promise.all(list.map(convertStorageToLocal with catch))).filter(Boolean)
ConvertAll(list, cl) ==
    IF list = <<>> THEN <<>>
    ELSE LET c == convertStorageToLocal(list[1], cl)
         IN  (IF c = None THEN <<>> ELSE <<Val(c)>>) \o ConvertAll(Tail(list), cl)

\* comm.completedDate || comm.date
CommDate(c) == IF c.completedDate # None THEN Val(c.completedDate) ELSE c.date

\* what recomputeClientStats(clientId) hands to updateClientStats, lines
\* 261-266, computed from the lists P and H of its closure, and what
\* updateClientStats makes of it, ClientContext.tsx 139-145
StatsOf(P, H, clientId) ==
    LET all == SelectSeq(P, LAMBDA c : c.client.id = clientId)
                 \o SelectSeq(H, LAMBDA c : c.client.id = clientId)
    IN  [ clientId |-> clientId,
          n    |-> Len(all),
          last |-> IF all = <<>> THEN None
                   ELSE Some(CHOOSE dt \in {CommDate(all[i]) : i \in DOMAIN all} :
                               \A i \in DOMAIN all : CommDate(all[i]) <= dt) ]

\* ClientProvider.updateClientStats, ClientContext.tsx 135-153
updateClientStats(cl, stats) ==
    [i \in DOMAIN cl |->
        IF cl[i].id # stats.clientId THEN cl[i]
        ELSE [cl[i] EXCEPT !.totalCommissions = stats.n, !.lastCommission = stats.last]]

\* list.filter(c => c.id !== id)
WithoutId(list, id) == SelectSeq(list, LAMBDA c : c.id # id)

\* list.find(c => c.id === id), None when there is none
FindId(list, id) ==
    IF \E i \in DOMAIN list : list[i].id = id
    THEN Some(list[CHOOSE i \in DOMAIN list :
                      list[i].id = id /\ \A j \in 1 .. i - 1 : list[j].id # id])
    ELSE None

IdsOf(list) == {list[i].id : i \in DOMAIN list}

\* The record store: a move relocates the record of that id from one bucket
\* to the other in one step, where it carries the status of its bucket; a
\* delete removes it; both reject when the record is not there.
StoreHas(st, bucket, id) == \E i \in DOMAIN st[bucket] : st[bucket][i].id = id

StoreMoveCommission(st, id, from, to) ==
    LET rec == Val(FindId(st[from], id))
    IN  [st EXCEPT ![from] = WithoutId(@, id),
                   ![to] = Upsert(@, [rec EXCEPT !.status = to])]

StoreDeleteCommission(st, id, bucket) == [st EXCEPT ![bucket] = WithoutId(@, id)]

\* PersistenceService.saveCommission accepts the record: the schema parses it
\* and every DataStorage validator returns
SaveAccepted(rec) == StorageCommissionSchema(rec) /\ DataStorageSaveCommissionChecks(rec)

\* -- the operations --
notCtxVars == <<mapperVars, backupVars, syncVars, pCall>>

\* the id PersistenceService.generateId() returns for the n-th new commission
GenId(n) == <<"g">> \o [i \in 1 .. n |-> "1"]

\* (mutant) an update that puts the commission back to 'Pending'
MergeResetting(c, updates) ==
    [f \in DOMAIN c |-> IF f \in DOMAIN updates THEN updates[f]
                        ELSE IF f = "status" THEN "Pending" ELSE c[f]]

\* { ...c, ...updates }
Merge(c, updates) ==
    [f \in DOMAIN c |-> IF f \in DOMAIN updates THEN updates[f] ELSE c[f]]

\* the workflow status of commission id in the two lists, None if in neither
StatusIn(P, H, id) ==
    IF FindId(P, id) # None THEN Some(Val(FindId(P, id)).status)
    ELSE IF FindId(H, id) # None THEN Some(Val(FindId(H, id)).status)
    ELSE None

\* the changes of workflow status between the lists P, H and P2, H2
StatusChanges(P, H, P2, H2) ==
    { <<Val(StatusIn(P, H, id)), Val(StatusIn(P2, H2, id))>> :
        id \in { x \in (IdsOf(P) \cup IdsOf(H)) \cap (IdsOf(P2) \cup IdsOf(H2)) :
                   StatusIn(P, H, x) # StatusIn(P2, H2, x) } }

\* one more operation started
Op(log) == [log EXCEPT !.ops = @ + 1]

\* a commission load begins with the client list cl of its closure, of which
\* it reads the id, name, contactInfo and pfp
LoadTask(cl) ==
    [kind |-> "loadCommissions", pc |-> "pending",
     cl |-> [i \in DOMAIN cl |-> ClientInfoOf(cl[i])], got |-> <<>>, raw |-> <<>>]

\* ClientProvider has rendered again with the client list cl (setClients with
\* a new array, or its isLoading changed): getClientById is a new function,
\* so convertStorageToLocal is new and the load effect of CommissionProvider,
\* whose dependency it is (lines 156, 179-215), runs again: setIsLoading(true)
\* and getCommissions('pending') is awaited
Rerender(others, cl) ==
    /\ tasks' = others \cup {LoadTask(cl)}
    /\ isLoading' = [isLoading EXCEPT !.commission = TRUE]

\* setClients(prev => prev.map(...)) of updateClientStats, and the re-render
UpdateStats(others, stats) ==
    /\ clients' = updateClientStats(clients, stats)
    /\ Rerender(others, clients')

\* loadAllCommissions (lines 221-255) is called: setIsLoading(true), and
\* getCommissions('pending') is awaited
StartLoadCommissions ==
    /\ ctxLog.ops < MaxOps
    /\ LoadTask(clients) \notin tasks
    /\ tasks' = tasks \cup {LoadTask(clients)}
    /\ isLoading' = [isLoading EXCEPT !.commission = TRUE]
    /\ ctxLog' = Op(ctxLog)
    /\ UNCHANGED <<pendingCommissions, historyCommissions, clients, store, now, notCtxVars>>

\* getCommissions('pending') settles: converted, then getCommissions('completed')
\* is awaited; a rejection ends the load in its catch block and its finally
LoadPendingSettle(t, ok) ==
    /\ t \in tasks
    /\ t.kind = "loadCommissions"
    /\ t.pc = "pending"
    /\ tasks' = (tasks \ {t}) \cup
          (IF ok THEN {[t EXCEPT !.pc = "completed",
                                 !.raw = getCommissions(store.pending),
                                 !.got = ConvertAll(getCommissions(store.pending), t.cl)]}
           ELSE {})
    /\ isLoading' = IF ok THEN isLoading ELSE [isLoading EXCEPT !.commission = FALSE]
    /\ ctxLog' = IF ok THEN ctxLog ELSE [ctxLog EXCEPT !.failed = TRUE]
    /\ UNCHANGED <<pendingCommissions, historyCommissions, clients, store, now, notCtxVars>>

\* getCommissions('completed') settles: setPending and setHistory, and the
\* finally block's setIsLoading(false)
LoadCompletedSettle(t, ok) ==
    /\ t \in tasks
    /\ t.kind = "loadCommissions"
    /\ t.pc = "completed"
    /\ tasks' = tasks \ {t}
    /\ IF ok
       THEN /\ pendingCommissions' = SelectSeq(t.got, LAMBDA c : c.status # "Completed")
            /\ historyCommissions' =
                 SelectSeq(ConvertAll(getCommissions(store.completed), t.cl),
                           LAMBDA c : c.status = "Completed")
            /\ UNCHANGED ctxLog
       ELSE /\ UNCHANGED <<pendingCommissions, historyCommissions>>
            /\ ctxLog' = [ctxLog EXCEPT !.failed = TRUE]
    /\ isLoading' = [isLoading EXCEPT !.commission = FALSE]
    /\ UNCHANGED <<clients, store, now, notCtxVars>>

\* loadAllClients (ClientContext.tsx 157-167) is called: setIsLoading(true)
\* renders ClientProvider again if isLoading was false
StartLoadClients ==
    /\ ctxLog.ops < MaxOps
    /\ [kind |-> "loadClients", mount |-> FALSE] \notin tasks
    /\ tasks' = tasks \cup {[kind |-> "loadClients", mount |-> FALSE]}
                      \cup (IF isLoading.client THEN {} ELSE {LoadTask(clients)})
    /\ isLoading' = [client |-> TRUE, commission |-> isLoading.commission \/ ~isLoading.client]
    /\ ctxLog' = Op(ctxLog)
    /\ UNCHANGED <<pendingCommissions, historyCommissions, clients, store, now, notCtxVars>>

\* getClients() settles, in the mount effect (lines 57-71: setClients([]) on
\* a rejection) or in loadAllClients; then setIsLoading(false)
LoadClientsSettle(t, g, ok) ==
    /\ t \in tasks
    /\ t.kind = "loadClients"
    /\ LET r == getClients(store.clients, g, now)
           loaded == ok /\ ~r.threw
       IN  /\ clients' = IF loaded
                         THEN [i \in DOMAIN r.value |-> convertStorageClient(r.value[i])]
                         ELSE IF t.mount THEN <<>> ELSE clients
           /\ tasks' = (tasks \ {t}) \cup
                 (IF loaded \/ t.mount \/ isLoading.client THEN {LoadTask(clients')} ELSE {})
           /\ isLoading' = [client |-> FALSE,
                            commission |-> isLoading.commission \/ loaded \/ t.mount
                                             \/ isLoading.client]
    /\ UNCHANGED <<pendingCommissions, historyCommissions, ctxLog, store, now, notCtxVars>>

\* addPendingCommission(data), lines 272-289, up to the await of saveCommission;
\* a record saveCommission rejects ends the call in its catch block
AddPendingCommission(data) ==
    /\ ctxLog.ops < MaxOps
    /\ LET newComm == [ id |-> GenId(ctxLog.made), client |-> data.client,
                        commType |-> data.commType, price |-> data.price,
                        description |-> data.description, refs |-> data.refs,
                        date |-> DatePart(toISOString(now)),
                        paymentStatus |-> data.paymentStatus, status |-> data.status,
                        originalDate |-> None, completedDate |-> None ]
           rec == convertLocalToStorage(newComm, now)
       IN  /\ tasks' = tasks \cup
                (IF SaveAccepted(rec)
                 THEN {[ kind |-> "add", comm |-> newComm, rec |-> rec,
                         stats |-> StatsOf(pendingCommissions, historyCommissions,
                                           newComm.client.id) ]}
                 ELSE {})
           /\ ctxLog' = [Op(ctxLog) EXCEPT !.made = @ + 1]
    /\ UNCHANGED <<pendingCommissions, historyCommissions, clients, isLoading, store, now,
                   notCtxVars>>

\* saveCommission of an addPendingCommission settles: the record is in the
\* store, setPending appends the commission and schedules the statistics
AddSettle(t, ok) ==
    /\ t \in tasks
    /\ t.kind = "add"
    /\ IF ok
       THEN /\ store' = StoreSaveCommission(store, t.rec)
            /\ pendingCommissions' = Append(pendingCommissions, t.comm)
            /\ tasks' = (tasks \ {t}) \cup {[kind |-> "timer", stats |-> t.stats]}
            /\ ctxLog' = [ctxLog EXCEPT !.created = @ \cup {t.comm.status},
                                        !.added = @ \cup {t.comm.id}]
       ELSE /\ tasks' = tasks \ {t}
            /\ UNCHANGED <<store, pendingCommissions, ctxLog>>
    /\ UNCHANGED <<historyCommissions, clients, isLoading, now, notCtxVars>>

\* setTimeout(() => recomputeClientStats(newComm.client.id), 0) fires, with
\* the lists of the render in which addPendingCommission was called
TimerFire(t) ==
    /\ t \in tasks
    /\ t.kind = "timer"
    /\ UpdateStats(tasks \ {t}, t.stats)
    /\ UNCHANGED <<pendingCommissions, historyCommissions, ctxLog, store, now, notCtxVars>>

\* what an update records: the payment status it set and at which stage
Paid(log, c, updates) ==
    IF "paymentStatus" \in DOMAIN updates
    THEN [log EXCEPT !.paid = @ \cup {[id |-> c.id, stage |-> c.status,
                                       p |-> updates.paymentStatus]}]
    ELSE log

\* the body of updatePendingCommission(id, updates), lines 291-302: the list
\* is updated and saveCommission is called without being awaited; stats
\* is what the caller goes on to hand to updateClientStats, if it does
PendingUpdate(id, updates, stats) ==
    /\ ctxLog.ops < MaxOps
    /\ FindId(pendingCommissions, id) # None
    /\ LET updated == [i \in DOMAIN pendingCommissions |->
                          IF pendingCommissions[i].id = id
                          THEN Merge(pendingCommissions[i], updates)
                          ELSE pendingCommissions[i]]
           rec == convertLocalToStorage(Val(FindId(updated, id)), now)
           saving == tasks \cup
                (IF SaveAccepted(rec)
                 THEN {[kind |-> "save", rec |-> rec,
                        was |-> FindId(pendingCommissions, id)]}
                 ELSE {})
       IN  /\ pendingCommissions' = updated
           /\ IF stats = None
              THEN /\ tasks' = saving
                   /\ UNCHANGED <<clients, isLoading>>
              ELSE UpdateStats(saving, Val(stats))
           /\ ctxLog' = [Paid(Op(ctxLog), Val(FindId(pendingCommissions, id)), updates)
                         EXCEPT !.transitions = @ \cup
                            StatusChanges(pendingCommissions, historyCommissions,
                                          updated, historyCommissions)]
    /\ UNCHANGED <<historyCommissions, store, now, notCtxVars>>

\* updatePendingCommission(id, updates)
UpdatePendingCommission(id, updates) == PendingUpdate(id, updates, None)

\* markCommissionInProgress(id), lines 344-346
MarkCommissionInProgress(id) == UpdatePendingCommission(id, [status |-> "In Progress"])

\* updatePaymentStatus(id, status, true), line 408: updatePendingCommission,
\* then the statistics from the lists of the closure
UpdatePaymentStatus(id, status) ==
    PendingUpdate(id, [paymentStatus |-> status],
                  Some(StatsOf(pendingCommissions, historyCommissions,
                               Val(FindId(pendingCommissions, id)).client.id)))

\* updateHistoryPaymentStatus(id, status), lines 393-404 (also reached by
\* updatePaymentStatus(id, status, false)): the list is updated, the save is
\* not awaited, the statistics come from the lists of the closure
UpdateHistoryPaymentStatus(id, status) ==
    /\ ctxLog.ops < MaxOps
    /\ FindId(historyCommissions, id) # None
    /\ LET target == Val(FindId(historyCommissions, id))
           updated == [i \in DOMAIN historyCommissions |->
                          IF historyCommissions[i].id = id
                          THEN Merge(historyCommissions[i], [paymentStatus |-> status])
                          ELSE historyCommissions[i]]
           rec == convertLocalToStorage(Val(FindId(updated, id)), now)
       IN  /\ historyCommissions' = updated
           /\ UpdateStats(tasks \cup
                            (IF SaveAccepted(rec)
                             THEN {[kind |-> "save", rec |-> rec, was |-> Some(target)]}
                             ELSE {}),
                          StatsOf(pendingCommissions, historyCommissions, target.client.id))
           /\ ctxLog' = [Paid(Op(ctxLog), target, [paymentStatus |-> status])
                         EXCEPT !.repaid = @ \cup
                            {[id |-> id, originalDate |-> target.originalDate,
                              completedDate |-> target.completedDate]}]
    /\ UNCHANGED <<pendingCommissions, store, now, notCtxVars>>

\* a saveCommission that nobody awaits settles
SaveSettle(t, ok) ==
    /\ t \in tasks
    /\ t.kind = "save"
    /\ tasks' = tasks \ {t}
    /\ store' = IF ok THEN StoreSaveCommission(store, t.rec) ELSE store
    /\ UNCHANGED <<pendingCommissions, historyCommissions, clients, isLoading, ctxLog, now,
                   notCtxVars>>

\* deletePendingCommission(id) / deleteHistoryCommission(id), lines 304-313
\* and 352-361, up to the await of deleteCommission
DeleteCommission(id, bucket) ==
    /\ ctxLog.ops < MaxOps
    /\ LET list == IF bucket = "pending" THEN pendingCommissions ELSE historyCommissions
           comm == FindId(list, id)
       IN  tasks' = tasks \cup
             (IF validateId(id)
              THEN {[ kind |-> "delete", id |-> id, bucket |-> bucket,
                      stats |-> IF comm = None THEN None
                                ELSE Some(StatsOf(pendingCommissions, historyCommissions,
                                                  Val(comm).client.id)) ]}
              ELSE {})
    /\ ctxLog' = Op(ctxLog)
    /\ UNCHANGED <<pendingCommissions, historyCommissions, clients, isLoading, store, now,
                   notCtxVars>>

\* deleteCommission settles: the list is filtered and the statistics of the
\* commission's client recomputed from the lists of the closure
DeleteSettle(t, ok) ==
    /\ t \in tasks
    /\ t.kind = "delete"
    /\ ok => StoreHas(store, t.bucket, t.id)
    /\ IF ok
       THEN /\ store' = StoreDeleteCommission(store, t.id, t.bucket)
            /\ IF t.bucket = "pending"
               THEN /\ pendingCommissions' = WithoutId(pendingCommissions, t.id)
                    /\ UNCHANGED historyCommissions
               ELSE /\ historyCommissions' = WithoutId(historyCommissions, t.id)
                    /\ UNCHANGED pendingCommissions
            /\ IF t.stats = None
               THEN /\ tasks' = tasks \ {t}
                    /\ UNCHANGED <<clients, isLoading>>
               ELSE UpdateStats(tasks \ {t}, Val(t.stats))
            /\ ctxLog' = [ctxLog EXCEPT !.deleted = @ \cup {t.id}]
       ELSE /\ tasks' = tasks \ {t}
            /\ UNCHANGED <<store, pendingCommissions, historyCommissions, clients,
                           isLoading, ctxLog>>
    /\ UNCHANGED <<now, notCtxVars>>

\* markCommissionComplete(id), lines 315-342, and markCommissionIncomplete(id),
\* lines 367-391, up to the await of moveCommission; nothing happens when the
\* commission is not in the list
MarkCommission(id, from, to) ==
    /\ ctxLog.ops < MaxOps
    /\ LET list == IF from = "pending" THEN pendingCommissions ELSE historyCommissions
           commission == FindId(list, id)
       IN  tasks' = tasks \cup
             (IF commission # None /\ validateId(id)
              THEN {[ kind |-> "move", from |-> from, to |-> to,
                      commission |-> Val(commission),
                      stats |-> StatsOf(pendingCommissions, historyCommissions,
                                        Val(commission).client.id) ]}
              ELSE {})
    /\ ctxLog' = Op(ctxLog)
    /\ UNCHANGED <<pendingCommissions, historyCommissions, clients, isLoading, store, now,
                   notCtxVars>>

MarkCommissionComplete(id) == MarkCommission(id, "pending", "completed")
MarkCommissionIncomplete(id) == MarkCommission(id, "completed", "pending")

\* the history record markCommissionComplete builds, lines 329-334
CompletedOf(commission, t) ==
    [commission EXCEPT !.status = "Completed",
                       !.originalDate = Some(commission.date),
                       !.completedDate = Some(DatePart(toISOString(t)))]

\* (mutant) a pending record dated by the completion
PendingOfCompletedDate(commission) ==
    [commission EXCEPT !.status = "Pending",
                       !.date = Val(commission.completedDate),
                       !.originalDate = None, !.completedDate = None]

\* the pending record markCommissionIncomplete builds, lines 374-384
PendingOf(commission) ==
    [commission EXCEPT !.status = "Pending",
                       !.date = Val(commission.originalDate),
                       !.originalDate = None, !.completedDate = None]

\* moveCommission settles: the commission leaves one list and joins the other
MoveSettle(t, ok) ==
    /\ t \in tasks
    /\ t.kind = "move"
    /\ ok => StoreHas(store, t.from, t.commission.id)
    /\ IF ok
       THEN /\ store' = StoreMoveCommission(store, t.commission.id, t.from, t.to)
            /\ IF t.to = "completed"
               THEN /\ pendingCommissions' = WithoutId(pendingCommissions, t.commission.id)
                    /\ historyCommissions' =
                         Append(historyCommissions, CompletedOf(t.commission, now))
               ELSE /\ historyCommissions' = WithoutId(historyCommissions, t.commission.id)
                    /\ pendingCommissions' =
                         Append(pendingCommissions, PendingOf(t.commission))
            /\ UpdateStats(tasks \ {t}, t.stats)
            /\ ctxLog' = [ctxLog EXCEPT
                 !.transitions = @ \cup
                     StatusChanges(pendingCommissions, historyCommissions,
                                   pendingCommissions', historyCommissions'),
                 !.moved = @ \cup {t.commission.id},
                 !.marked = IF t.to = "completed"
                            THEN {m \in @ : m.id # t.commission.id}
                                   \cup {[id |-> t.commission.id, date |-> t.commission.date]}
                            ELSE @,
                 !.incomplete = IF t.to = "pending"
                                THEN {[src |-> t.commission,
                                       made |-> PendingOf(t.commission)]}
                                ELSE @]
       ELSE /\ tasks' = tasks \ {t}
            /\ UNCHANGED <<store, pendingCommissions, historyCommissions, clients,
                           isLoading, ctxLog>>
    /\ UNCHANGED <<now, notCtxVars>>

\* a day passes
NextDay ==
    /\ now + TicksPerDay <= MaxTime
    /\ now' = now + TicksPerDay
    /\ UNCHANGED <<ctxVars, store, notCtxVars>>

\* -- the inputs --
StoredCommission(status) ==
    [BaseCommission EXCEPT !.status = status,
                           !.updated_at = toISOString(TicksPerDay)]

\* a stored record that passes StorageCommissionSchema and that the mapper
\* rejects: its price_cents is negative
UnmappableCommission ==
    [BaseCommission EXCEPT !.id = <<"c", "2">>, !.price_cents = Some(Num(-1))]

\* the stored client, renamed since the commission's snapshot was written
StoredClient == [BaseClient EXCEPT !.name = Some(<<"A", "a">>)]

\* what the form hands to addPendingCommission (part_002, lines 123-131)
NewCommissionData ==
    [ client        |-> [id |-> <<"k", "1">>, name |-> <<"A">>,
                         contactInfo |-> <<"A">>, pfp |-> None],
      commType      |-> <<"A", "A", "A">>,
      price         |-> 49990,
      description   |-> Some(<<"a">>),
      refs          |-> <<>>,
      status        |-> "Pending",
      paymentStatus |-> "not-paid" ]

\* the new payment status the card's selector hands over
NewPaymentStatus == "fully-paid"

\* the providers have just mounted over a store that holds one client, one
\* commission of that client and one record the mapper rejects: both mount
\* effects are awaiting the store
CtxInit ==
    /\ MapperIdle
    /\ now = TicksPerDay
    /\ BackupIdle
    /\ SyncIdle
    /\ pCall = NoCall
    /\ \E status \in WorkStatusEnum :
         store = [ clients   |-> <<StoredClient>>,
                   pending   |-> <<UnmappableCommission>> \o
                                 (IF status = "completed" THEN <<>>
                                  ELSE <<StoredCommission(status)>>),
                   completed |-> IF status = "completed"
                                 THEN <<StoredCommission(status)>> ELSE <<>> ]
    /\ pendingCommissions = <<>>
    /\ historyCommissions = <<>>
    /\ clients = <<>>
    /\ isLoading = [client |-> TRUE, commission |-> TRUE]
    /\ tasks = { LoadTask(<<>>), [kind |-> "loadClients", mount |-> TRUE] }
    /\ ctxLog = NoLog

CtxNext ==
    \/ StartLoadCommissions
    \/ \E t \in tasks, ok \in BOOLEAN : LoadPendingSettle(t, ok)
    \/ \E t \in tasks, ok \in BOOLEAN : LoadCompletedSettle(t, ok)
    \/ StartLoadClients
    \/ \E t \in tasks, g \in GeneratedIds, ok \in BOOLEAN : LoadClientsSettle(t, g, ok)
    \/ \E i \in DOMAIN clients :
         AddPendingCommission([NewCommissionData EXCEPT !.client = ClientInfoOf(clients[i])])
    \/ \E t \in tasks, ok \in BOOLEAN : AddSettle(t, ok)
    \/ \E t \in tasks : TimerFire(t)
    \/ \E id \in IdsOf(pendingCommissions) : MarkCommissionInProgress(id)
    \/ \E id \in IdsOf(pendingCommissions) : UpdatePaymentStatus(id, NewPaymentStatus)
    \/ \E id \in IdsOf(historyCommissions) : UpdateHistoryPaymentStatus(id, NewPaymentStatus)
    \/ \E t \in tasks, ok \in BOOLEAN : SaveSettle(t, ok)
    \/ \E id \in IdsOf(pendingCommissions) : DeleteCommission(id, "pending")
    \/ \E id \in IdsOf(historyCommissions) : DeleteCommission(id, "completed")
    \/ \E t \in tasks, ok \in BOOLEAN : DeleteSettle(t, ok)
    \/ \E id \in IdsOf(pendingCommissions) : MarkCommissionComplete(id)
    \/ \E id \in IdsOf(historyCommissions) : MarkCommissionIncomplete(id)
    \/ \E t \in tasks, ok \in BOOLEAN : MoveSettle(t, ok)
    \/ NextDay

SpecContext == CtxInit /\ [][CtxNext]_vars

(***************************************************************************)
(* Claims about the Sync Coordinator (checked under SpecSync)              *)
(***************************************************************************)
\* loads in flight, per collection, whoever started them
ClientReloadsInFlight ==
    Cardinality({i \in DOMAIN bodies : bodies[i].c = "fetch"})
    + clientLoads.live + clientLoads.orphan

CommissionReloadsInFlight ==
    Cardinality({i \in DOMAIN bodies : bodies[i].m # "done"})
    + commLoads.pending + commLoads.completed
    + commLoads.orphanPending + commLoads.orphanCompleted

\* C1: at most one syncNow body runs at a time, and whatever number of
\* syncNow / triggerDataSync / timer calls arrive during a flight, the flight
\* fetches the clients once, the pending commissions once and the completed
\* commissions once (not at all if the pending fetch was rejected).
C1_SingleFlight ==
    /\ Len(bodies) <= 1
    /\ flight.clients <= 1 /\ flight.pending <= 1 /\ flight.completed <= 1
    /\ bodies # <<>> =>
         /\ isCurrentlySyncing
         /\ flight.clients = 1 /\ flight.pending = 1
         /\ bodies[1].m = "completed" => flight.completed = 1
    /\ (flight.calls > 0 /\ bodies = <<>> /\ ~flight.pendingFailed) =>
         (flight.clients = 1 /\ flight.pending = 1 /\ flight.completed = 1)

\* three calls arrived during one flight, which has ended with one fetch each
C1_Witness ==
    /\ flight.calls >= 3
    /\ bodies = <<>>
    /\ ~isCurrentlySyncing
    /\ flight.clients = 1 /\ flight.pending = 1 /\ flight.completed = 1

\* C2: counting every reload path, at most one reload of the clients and at
\* most one reload of the commissions is in flight at any time.
C2_AllReloadsSingleFlight ==
    /\ ClientReloadsInFlight <= 1
    /\ CommissionReloadsInFlight <= 1

\* the step starts no sync body and issues no fetch
NoFetch ==
    /\ bodies' = bodies
    /\ isCurrentlySyncing' = isCurrentlySyncing
    /\ flight'.clients = flight.clients
    /\ flight'.pending = flight.pending
    /\ flight'.completed = flight.completed
    /\ clientLoads' = clientLoads
    /\ commLoads' = commLoads

\* the step starts exactly one sync body, which issues its two loads
OneSync ==
    /\ bodies' = Append(bodies, [c |-> "fetch", m |-> "pending", live |-> TRUE])
    /\ isCurrentlySyncing'
    /\ clientLoads' = clientLoads
    /\ commLoads' = commLoads

\* C22: a triggerDataSync() call fetches nothing when no sync function is
\* registered (before the first mount, after an unmount) and when a sync is
\* in flight; with a function registered and no sync in flight it starts
\* exactly one sync.
C22_TriggerDataSync ==
    [][TriggerDataSync =>
          IF globalSyncFunction = "null" \/ isCurrentlySyncing
          THEN NoFetch
          ELSE OneSync]_vars

\* triggerDataSync() has been called before the first mount: nothing is
\* registered and nothing was fetched
C22_Witness ==
    /\ mounts = 0
    /\ calls > 0
    /\ globalSyncFunction = "null"
    /\ bodies = <<>>
    /\ flight = NoFlight

PrimaryOf(key) == getItem(localStorage, BACKUP_KEYS[key])
BackupOf(key) == getItem(localStorage, BACKUP_KEYS[BackupKeyOf(key)])

\* the last call was loadWithBackupFallback(k), and nothing has run since
JustLoaded == NoCallRunning /\ Len(hist) > 0 /\ hist[Len(hist)].op = "load"

\* the last two calls were saveWithBackup(k, v1), saveWithBackup(k, v2), both returning true
TwoSaves ==
    /\ NoCallRunning
    /\ Len(hist) = 2
    /\ hist[1].op = "save" /\ hist[2].op = "save"
    /\ hist[1].key = hist[2].key
    /\ hist[1].ret = JBool(TRUE) /\ hist[2].ret = JBool(TRUE)

\* the last two calls were saveWithBackup(k, v) returning true, loadWithBackupFallback(k)
SaveThenLoad ==
    /\ NoCallRunning
    /\ Len(hist) = 2
    /\ hist[1].op = "save" /\ hist[2].op = "load"
    /\ hist[1].key = hist[2].key
    /\ hist[1].ret = JBool(TRUE)

\* C3: at every point of a saveWithBackup(key, data) call, and after it has
\* returned or stopped, the primary key holds the complete old value or the
\* complete new value; and when it holds the new value and there was an old
\* (non-empty) value, the backup key holds that old value: the capture
\* precedes the write.
C3_CaptureBeforeWrite ==
    bk.pc # "idle" =>
        /\ PrimaryOf(bk.key) \in {bk.currentData, bk.dataString}
        /\ (/\ PrimaryOf(bk.key) = bk.dataString
            /\ bk.dataString # bk.currentData
            /\ Truthy(bk.currentData))
           => BackupOf(bk.key) = bk.currentData

\* the call stopped after its write (the timestamp write threw): the primary
\* holds the new value and the backup the old, different, one
C3_Witness ==
    /\ bk.pc = "threw"
    /\ Truthy(bk.currentData)
    /\ bk.dataString # bk.currentData
    /\ PrimaryOf(bk.key) = bk.dataString
    /\ BackupOf(bk.key) = bk.currentData

\* C4 (as stated): after saveWithBackup(k, v1) and saveWithBackup(k, v2), both
\* successful, the backup key of k holds v1 and the primary key of k holds v2
\* (as their JSON texts).
C4_BackupHoldsV1 ==
    TwoSaves =>
        /\ BackupOf(hist[1].key) = JSONstringify(hist[1].data)
        /\ PrimaryOf(hist[1].key) = JSONstringify(hist[2].data)

\* C4 (amended): after two successful back-to-back saves on k, the backup
\* key holds the text the first call stored, JSON.stringify(sanitizeForStorage(v1)),
\* and the primary key the text the second call stored.
C4_BackupHoldsStoredV1 ==
    TwoSaves =>
        /\ BackupOf(hist[1].key) = JSONstringify(sanitizeForStorage(hist[1].data))
        /\ PrimaryOf(hist[1].key) = JSONstringify(sanitizeForStorage(hist[2].data))

\* two successful saves of different values, the first one changed by sanitizing
C4_Witness ==
    /\ TwoSaves
    /\ JSONstringify(sanitizeForStorage(hist[1].data)) # JSONstringify(sanitizeForStorage(hist[2].data))
    /\ BackupOf(hist[1].key) = JSONstringify(sanitizeForStorage(hist[1].data))
    /\ BackupOf(hist[1].key) # JSONstringify(hist[1].data)

\* C5 (as stated): saveWithBackup(k, v) of a defined value v followed
\* immediately by loadWithBackupFallback(k) returns v.
C5_LoadReturnsSaved ==
    (SaveThenLoad /\ hist[1].data # JUndef) => hist[2].ret = hist[1].data

\* C5 (amended): for a value v other than undefined, a successful
\* saveWithBackup(k, v) followed immediately by loadWithBackupFallback(k)
\* returns sanitizeForStorage(v) as JSON carries it.
C5_LoadReturnsSanitized ==
    (SaveThenLoad /\ hist[1].data # JUndef) =>
        hist[2].ret = JsonTree(sanitizeForStorage(hist[1].data))

\* a value that sanitizing changes was saved and then loaded
C5_Witness ==
    /\ SaveThenLoad
    /\ hist[1].data # JUndef
    /\ sanitizeForStorage(hist[1].data) # hist[1].data
    /\ hist[2].ret = sanitizeForStorage(hist[1].data)

\* C6: loadWithBackupFallback(k) returns the decoded primary value if it
\* decodes, else the decoded backup value if that decodes, else null.
C6_FallbackChain ==
    JustLoaded =>
        LET k == hist[Len(hist)].key
            r == hist[Len(hist)].ret
        IN  IF Parseable(PrimaryOf(k)) THEN r = JSONparse(PrimaryOf(k))
            ELSE IF Parseable(BackupOf(k)) THEN r = JSONparse(BackupOf(k))
            ELSE r = JNull

\* the primary was replaced with unparsable data and the load returned the
\* backed-up value
C6_Witness ==
    /\ JustLoaded
    /\ PrimaryOf(hist[Len(hist)].key) = Raw("garbage")
    /\ Parseable(BackupOf(hist[Len(hist)].key))
    /\ hist[Len(hist)].ret = JSONparse(BackupOf(hist[Len(hist)].key))

\* C30: a step of loadWithBackupFallback or saveWithBackup never replaces a
\* parseable value under the backup key of k with one that does not parse
C30_RollbackKept ==
    [][\A k \in BackupOpKeys :
         Parseable(BackupOf(k)) => Parseable(BackupOf(k))']_vars

\* C7: after every cleanup pass of createEmergencyBackup, at most 3 keys with
\* the emergency prefix are in storage, and they are the keys with the
\* greatest timestamps among those present when the pass began.
C7_EmergencyRetention ==
    (lastRestore.ran /\ lastRestore.cleaned) =>
        LET E == EmergencyKeys(localStorage)
            B == lastRestore.before
        IN  /\ Cardinality(E) <= 3
            /\ E \subseteq B
            /\ Cardinality(B) >= 3 => Cardinality(E) = 3
            /\ Cardinality(B) < 3 => E = B
            /\ \A k \in E : \A o \in B \ E : KeyLess(o, k)

\* a fourth snapshot was created and the pass left three
C7_Witness ==
    /\ lastRestore.ran
    /\ lastRestore.cleaned
    /\ Cardinality(lastRestore.before) = 4
    /\ Cardinality(EmergencyKeys(localStorage)) = 3
    /\ EmergencyKey(0) \notin EmergencyKeys(localStorage)

(***************************************************************************)
(* Claims about the mappers (checked under SpecMapper)                     *)
(***************************************************************************)
\* the claim's "price in cents" of a storage record: price_cents, or the
\* integer n nearest to price * 100 (ties upwards): n - 1/2 <= price*100 < n + 1/2
IsHalfUpOf(n, x) == IsInt(n) /\ 2 * n - Scale <= 2 * x /\ 2 * x < 2 * n + Scale

IsCentsOf(n, s) ==
    IF s.price_cents # None THEN n = Val(s.price_cents)
    ELSE IsHalfUpOf(n, Val(s.price) * 100)

\* C8: for every valid storage commission s (one that satisfies
\* StorageCommissionSchema), domainCommissionToStorage(storageCommissionToDomain(s))
\* exists and has the same price in cents, payment_status and status as s.
C8_RoundTripPreserves ==
    (mPc = "stored" /\ StorageCommissionSchema(mIn)) =>
        /\ mBack # Some(Threw)
        /\ Val(mBack).price_cents # None
        /\ IsCentsOf(Val(Val(mBack).price_cents), mIn)
        /\ Val(mBack).payment_status = mIn.payment_status
        /\ Val(mBack).status = mIn.status

C10_PaymentStatusBijection ==
    /\ \A s \in StoragePaymentStatusEnum :
          /\ mapPaymentStatusStorageToDomain(s) \in PaymentStatusEnum
          /\ mapPaymentStatusDomainToStorage(mapPaymentStatusStorageToDomain(s)) = s
    /\ \A p \in PaymentStatusEnum :
          /\ mapPaymentStatusDomainToStorage(p) \in StoragePaymentStatusEnum
          /\ mapPaymentStatusStorageToDomain(mapPaymentStatusDomainToStorage(p)) = p
    /\ (mPc # "input" /\ mIn.payment_status \notin StoragePaymentStatusEnum) =>
          mDomain = None
    /\ (mPc # "input" /\ mDomain # None) =>
          mapPaymentStatusDomainToStorage(Val(mDomain).paymentStatus) = mIn.payment_status

\* a record with the unknown label "Paid" and an otherwise mappable price
\* has been mapped, with no commission produced
C10_Witness ==
    /\ mPc = "mapped"
    /\ mIn.payment_status = "Paid"
    /\ mIn.price_cents = Some(Num(4999))
    /\ mDomain = None

\* C21: a storage commission with status 'completed' maps to a domain
\* commission whose originalDate is the date part of created_at and whose
\* completedDate is the date part of updated_at; one with status 'pending'
\* or 'in-progress' maps to a domain commission with neither date set.
C21_CompletionDates ==
    (mPc # "input" /\ mDomain # None) =>
        IF mIn.status = "completed"
        THEN /\ Val(mDomain).originalDate = Some(DatePart(mIn.created_at))
             /\ Val(mDomain).completedDate = Some(DatePart(mIn.updated_at))
        ELSE /\ Val(mDomain).originalDate = None
             /\ Val(mDomain).completedDate = None

\* a completed record updated on a later day than it was created has been mapped
C21_Witness ==
    /\ mPc = "mapped"
    /\ mIn.status = "completed"
    /\ mDomain # None
    /\ DatePart(mIn.updated_at) # DatePart(mIn.created_at)
    /\ Val(mDomain).completedDate = Some(DatePart(mIn.updated_at))

(***************************************************************************)
(* Claims about the PersistenceService (checked under SpecPersist)         *)
(***************************************************************************)
\* the positions of the raw records that satisfy StorageCommissionSchema
ParsingAt(raw) == {i \in DOMAIN raw : raw[i] # JNull /\ StorageCommissionSchema(raw[i])}

\* the position in the output of the record read at position i
RankIn(raw, i) == Cardinality({j \in ParsingAt(raw) : j <= i})

\* out is the raw record r, with the schema's default for a missing description
SameCommission(out, r) ==
    /\ [out EXCEPT !.description = r.description] = r
    /\ out.description = IF r.description = None THEN Some(<<>>) ELSE r.description

\* out holds exactly the records of raw that parse, in their order
KeepsTheParsing(out, raw) ==
    /\ Len(out) = Cardinality(ParsingAt(raw))
    /\ \A i \in ParsingAt(raw) : SameCommission(out[RankIn(raw, i)], raw[i])

\* C11: getCommissions(bucket), when the store read succeeds, returns exactly
\* the raw records that satisfy StorageCommissionSchema, in their original
\* order; every other record is dropped and the batch is not aborted.
C11_LenientCommissionLoad ==
    (pCall.op = "getCommissions" /\ ~pCall.rejected) =>
        KeepsTheParsing(pCall.result, pCall.arg)

\* three raw records, the middle one invalid: the other two are returned
C11_Witness ==
    /\ pCall.op = "getCommissions"
    /\ ~pCall.rejected
    /\ Len(pCall.arg) = 3
    /\ ParsingAt(pCall.arg) = {1, 3}
    /\ Len(pCall.result) = 2

\* C12: validateArray(schema, data) returns all the elements of data that
\* parse, dropping the others.
C12_ValidateArrayDrops ==
    pCall.op = "validateArray" => KeepsTheParsing(pCall.result, pCall.arg)

\* the positions of the raw client records that satisfy StorageClientSchema
ClientsParsingAt(raw) == {i \in DOMAIN raw : StorageClientSchema(raw[i])}

\* C13: getClients(), when the store read succeeds, returns one record for
\* each raw record that satisfies StorageClientSchema, with that record's id,
\* in order, and nothing for a record that fails the schema.
C13_ClientLoadDrops ==
    (pCall.op = "getClients" /\ pCall.read) =>
        /\ ~pCall.rejected
        /\ Len(pCall.result) = Cardinality(ClientsParsingAt(pCall.arg))
        /\ \A i \in ClientsParsingAt(pCall.arg) :
             pCall.result[Cardinality({j \in ClientsParsingAt(pCall.arg) : j <= i})].id
                = pCall.arg[i].id

\* the defects of a commission record that the claim lists
IllFormedId(id) == id = <<>> \/ \E i \in DOMAIN id : id[i] \notin IdChars
IllFormedName(name) ==
    \/ name = <<>>
    \/ \A i \in DOMAIN name : name[i] = " "
    \/ \E i \in DOMAIN name : name[i] \in DangerousNameChars
    \/ \E i \in 1 .. Len(name) - 1 : name[i] = "." /\ name[i + 1] = "."

ListedCommissionDefect(c) ==
    \/ (c.price = None /\ c.price_cents = None)
    \/ (c.price_cents # None /\ (Val(c.price_cents) < 0 \/ Val(c.price_cents) % Scale # 0))
    \/ c.status \notin {"pending", "in-progress", "completed"}
    \/ c.payment_status \notin {"Not Paid", "Half Paid", "Fully Paid"}
    \/ IllFormedId(c.id) \/ IllFormedId(c.client_id)
    \/ IllFormedName(c.client_name) \/ IllFormedName(c.title)

ListedClientDefect(c) ==
    \/ c.id = None \/ c.name = None \/ c.contact = None
    \/ (c.id # None /\ IllFormedId(Val(c.id)))
    \/ (c.name # None /\ IllFormedName(Val(c.name)))

\* C14: saveCommission / saveClient called with a record that has one of the
\* listed defects rejects before the store's save is invoked, and the store
\* is as it was before the call; the same holds whenever the call is
\* rejected by the schema or by a validator.
C14_StrictWrites ==
    (pCall.op \in {"saveCommission", "saveClient"}) =>
        /\ (IF pCall.op = "saveCommission" THEN ListedCommissionDefect(pCall.arg)
            ELSE ListedClientDefect(pCall.arg))
              => pCall.result \in {"ZodError", "ValidationError"}
        /\ pCall.result \in {"ZodError", "ValidationError"} =>
              (pCall.rejected /\ ~pCall.invoked /\ store = pCall.before)

\* a negative price_cents passes the schema and is stopped by validatePriceCents
C14_Witness ==
    /\ pCall.op = "saveCommission"
    /\ pCall.arg.price_cents # None
    /\ Val(pCall.arg.price_cents) < 0
    /\ pCall.result = "ValidationError"
    /\ ~pCall.invoked
    /\ store = pCall.before
    /\ store.pending # <<>>

(***************************************************************************)
(* Claims about the commission and client providers                        *)
(***************************************************************************)
\* commission id is in exactly one of pendingCommissions and historyCommissions
InOneCollection(id) ==
    (id \in IdsOf(pendingCommissions)) # (id \in IdsOf(historyCommissions))

\* C15: relocation is atomic for the caller: in every state a commission that
\* markCommissionComplete or markCommissionIncomplete has relocated, and that
\* has not been deleted, is in exactly one of the pending and completed
\* collections, never in both and never in neither
C15_AtomicRelocation ==
    \A id \in ctxLog.moved \ ctxLog.deleted : InOneCollection(id)

\* C16: the pending record markCommissionIncomplete makes of a Completed
\* commission has status 'Pending' and the date of the history record's
\* originalDate; when markCommissionComplete completed the commission before,
\* that is the date the commission had when it was completed
C16_IncompleteRestoresDate ==
    \A r \in ctxLog.incomplete :
        /\ r.made.status = "Pending"
        /\ r.made.date = Val(r.src.originalDate)
        /\ FindId(pendingCommissions, r.src.id) # None
               => Val(FindId(pendingCommissions, r.src.id)).status # "Completed"
        /\ \A m \in ctxLog.marked : m.id = r.src.id => r.made.date = m.date

\* a commission completed on a later day than it was started has gone back
\* to pending
C16_Witness ==
    \E r \in ctxLog.incomplete :
        /\ r.src.completedDate # r.src.originalDate
        /\ \E m \in ctxLog.marked : m.id = r.src.id
        /\ FindId(pendingCommissions, r.src.id) = Some(r.made)

\* CommissionBusinessLogic.validateStatusTransition, part_006 lines 69-80
validateStatusTransition(from, to) ==
    \/ from = "Pending" /\ to = "In Progress"
    \/ from = "In Progress" /\ to = "Completed"
    \/ from = "Completed" /\ to = "Pending"
    \/ from = to

\* C17: a commission addPendingCommission creates starts 'Pending', and every
\* change of workflow status the context operations make is Pending to In
\* Progress, In Progress to Completed or Completed to Pending, a transition
\* validateStatusTransition accepts
C17_WorkflowLifecycle ==
    /\ ctxLog.created \subseteq {"Pending"}
    /\ \A tr \in ctxLog.transitions : validateStatusTransition(tr[1], tr[2])

\* C18: deletion is terminal: the id of a commission whose deletion succeeded
\* is in neither pendingCommissions nor historyCommissions ever after, also
\* when a reload that was in flight at the deletion completes
C18_DeletionTerminal ==
    \A id \in ctxLog.deleted :
        id \notin IdsOf(pendingCommissions) \cup IdsOf(historyCommissions)

\* C19: once every operation has settled, each client's totalCommissions is
\* the number of pending and history commissions of that client and its
\* lastCommission the latest completedDate-or-date among them
C19_DerivedClientStats ==
    tasks = {} =>
        \A i \in DOMAIN clients :
            LET stats == StatsOf(pendingCommissions, historyCommissions, clients[i].id)
            IN  /\ clients[i].totalCommissions = stats.n
                /\ clients[i].lastCommission = stats.last

(***************************************************************************)
(* Claims about the sanitizer                                              *)
(***************************************************************************)
RECURSIVE StringsOf(_)
\* the strings sanitizeForStorage visits in a value, at any depth
StringsOf(v) ==
    CASE v.t = "string" -> {v.s}
      [] v.t = "array"  -> UNION {StringsOf(v.e[i]) : i \in DOMAIN v.e}
      [] v.t = "object" -> UNION {StringsOf(v.f[k]) : k \in DOMAIN v.f}
      [] OTHER -> {}

\* s has a match of /javascript:/gi
HasJavascript(s) == \E i \in 1 .. Len(s) - 1 : s[i] = "java" /\ s[i + 1] = "script:"

\* s has a match of the <script> or <iframe> element pattern
HasElement(s) ==
    \E i, j \in DOMAIN s :
        /\ i < j
        /\ \/ s[i] = "<script>" /\ s[j] = "</script>"
           \/ s[i] = "<iframe>" /\ s[j] = "</iframe>"

\* s has a match of /on\w+\s*=/gi
HasHandler(s) == \E i \in DOMAIN s : HandlerEnd(s, i) # 0

\* C20: no string saveWithBackup has stored under the primary key, at any
\* depth of the value, contains 'javascript:', a <script> or <iframe> element
\* or an inline on<word>= handler; sanitizeText would change none of them
C20_StoredStringsSanitized ==
    (/\ bk.pc \in {"returned", "threw"}
     /\ PrimaryOf(bk.key) = bk.dataString
     /\ Parseable(bk.dataString))
        => \A s \in StringsOf(JSONparse(PrimaryOf(bk.key))) :
               /\ ~HasJavascript(s)
               /\ ~HasElement(s)
               /\ ~HasHandler(s)
               /\ sanitizeText(s) = s

\* list2 is list with the payment status of commission id set to p and
\* nothing else changed
PaymentOnly(list, list2, id, p) ==
    /\ Len(list2) = Len(list)
    /\ \A i \in DOMAIN list :
         list2[i] = IF list[i].id = id THEN [list[i] EXCEPT !.paymentStatus = p]
                    ELSE list[i]

\* C23: a payment status update of a commission, at whatever workflow stage
\* it is, sets that commission's paymentStatus to the new value and leaves its
\* workflow status, the membership of both lists and every other commission
\* as they were
C23_PaymentIndependent ==
    [][/\ \A id \in IdsOf(pendingCommissions) :
            UpdatePaymentStatus(id, NewPaymentStatus) =>
                /\ PaymentOnly(pendingCommissions, pendingCommissions', id, NewPaymentStatus)
                /\ historyCommissions' = historyCommissions
       /\ \A id \in IdsOf(historyCommissions) :
            UpdateHistoryPaymentStatus(id, NewPaymentStatus) =>
                /\ PaymentOnly(historyCommissions, historyCommissions', id, NewPaymentStatus)
                /\ pendingCommissions' = pendingCommissions]_vars

\* a completed commission has been given the new payment status and is still
\* listed as completed
C23_Witness ==
    \E x \in ctxLog.paid :
        /\ x.stage = "Completed"
        /\ \E i \in DOMAIN historyCommissions :
             /\ historyCommissions[i].id = x.id
             /\ historyCommissions[i].status = "Completed"
             /\ historyCommissions[i].paymentStatus = NewPaymentStatus

\* the records of raw that convertStorageToLocal accepts, converted, in order
Kept(raw, cl) ==
    LET ok == SelectSeq(raw, LAMBDA r : convertStorageToLocal(r, cl) # None)
    IN  [i \in DOMAIN ok |-> Val(convertStorageToLocal(ok[i], cl))]

\* C24: a commission load that has read both buckets lists every record the
\* mapper accepts and leaves out only the ones it rejects, and a load that
\* ends, with both buckets read or with a failed read, leaves isLoading false
C24_PerRecordSkip ==
    [][\A t \in tasks :
         /\ LoadCompletedSettle(t, TRUE) =>
              /\ pendingCommissions' =
                   SelectSeq(Kept(t.raw, t.cl), LAMBDA c : c.status # "Completed")
              /\ historyCommissions' =
                   SelectSeq(Kept(getCommissions(store.completed), t.cl),
                             LAMBDA c : c.status = "Completed")
              /\ ~isLoading'.commission
         /\ (LoadPendingSettle(t, FALSE) \/ LoadCompletedSettle(t, FALSE)) =>
              /\ ~isLoading'.commission
              /\ UNCHANGED <<pendingCommissions, historyCommissions>>]_vars

\* the loads at startup have ended over a store whose pending bucket holds a
\* record the mapper rejects: the other record is listed, that one is not
C24_Witness ==
    /\ tasks = {}
    /\ ~ctxLog.failed
    /\ ctxLog.ops = 0
    /\ ~isLoading.commission
    /\ StoreHas(store, "pending", UnmappableCommission.id)
    /\ IdsOf(pendingCommissions) \cup IdsOf(historyCommissions) = {BaseCommission.id}

\* commission c carries the name, contact and avatar of the client of its
\* client id in the list cl, if there is one
CarriesCurrent(c, cl) ==
    getClientById(cl, c.client.id) # None =>
        c.client = ClientInfoOf(Val(getClientById(cl, c.client.id)))

\* C25: once the loads of clients and commissions have all ended, none of
\* them failed, every listed commission whose client is in the client list
\* carries that client's current name, contact and avatar
C25_ClientSnapshotMerged ==
    (tasks = {} /\ ~ctxLog.failed) =>
        /\ \A i \in DOMAIN pendingCommissions : CarriesCurrent(pendingCommissions[i], clients)
        /\ \A i \in DOMAIN historyCommissions : CarriesCurrent(historyCommissions[i], clients)

\* C27: once nothing is in flight any more, no load having failed, every
\* commission that addPendingCommission has added, and that was neither
\* deleted nor moved since, is in pendingCommissions
C27_NoLostUpdate ==
    (tasks = {} /\ ~ctxLog.failed) =>
        \A id \in ctxLog.added \ (ctxLog.deleted \cup ctxLog.moved) :
            id \in IdsOf(pendingCommissions)

\* the commission of that id in the lists P and H, None if in neither
RecordIn(P, H, id) == IF FindId(P, id) # None THEN FindId(P, id) ELSE FindId(H, id)

\* C28: when the store call of a mutating operation fails, the lists and the
\* clients are as they were before the operation was invoked: a failed add,
\* delete or move changes nothing, and after a failed save of an update the
\* commission is as it was before the update
C28_FailureKeepsMemory ==
    [][\A t \in tasks :
         /\ (AddSettle(t, FALSE) \/ DeleteSettle(t, FALSE) \/ MoveSettle(t, FALSE)) =>
              UNCHANGED <<pendingCommissions, historyCommissions, clients>>
         /\ SaveSettle(t, FALSE) =>
              RecordIn(pendingCommissions', historyCommissions', t.rec.id) = t.was]_vars

\* C29: a completed commission whose payment status was updated, and which
\* was not moved since, is listed with the originalDate and the completedDate
\* it had before the update, also after the save and a reload
C29_ResaveKeepsDates ==
    \A x \in ctxLog.repaid :
        x.id \notin ctxLog.moved =>
            \A i \in DOMAIN historyCommissions :
                historyCommissions[i].id = x.id =>
                    /\ historyCommissions[i].originalDate = x.originalDate
                    /\ historyCommissions[i].completedDate = x.completedDate

====
